---- MODULE Spec2Model ----
(***************************************************************************)
(* otel-demo-lite.                                                         *)
(*                                                                         *)
(* Checkout orchestrator (src/go/services/checkout.go): placeOrder and the *)
(* step functions it calls, the spans they start and end, the outbound     *)
(* HTTP calls they make and what the caller of /checkout gets back.        *)
(* Transactions run one after another; each is entered either from the     *)
(* batch loop of RunCheckoutService or from the /checkout handler of       *)
(* InitCheckoutServer.  The downstream services are the environment: every *)
(* outbound call is answered with 200, with a non-200 status, with a       *)
(* transport error, or not at all.                                         *)
(*                                                                         *)
(* Cart service: its three handlers on concurrent connections and the      *)
(* Redis hash behind them.                                                 *)
(*                                                                         *)
(* Service endpoints: what the HTTP server of each service does with one   *)
(* request, statement by statement.                                        *)
(*                                                                         *)
(* Context propagation: the composite propagator both runtimes install.    *)
(*                                                                         *)
(* Browser simulator: one iteration of runSingleIteration.                 *)
(***************************************************************************)
EXTENDS Integers, Sequences, FiniteSets, TLC

\* Number of placeOrder invocations explored.
MaxOrders == 2

\* checkout.go:263  itemCount := 3
itemCount == 3

VARIABLES
    txn,            \* number of placeOrder invocations started so far
    mode,           \* entry point of the current invocation: "batch" | "http" | "none"
    pc,             \* position inside placeOrder
    step,           \* index in StepOrder of the current step
    k,              \* index in StepCalls of the current outbound call
    stepErr,        \* the error value the current step function returns
    hung,           \* the pending outbound call will never be answered
    now,            \* clock read by span start and span end
    spans,          \* spans of the current transaction, in start order
    entered,        \* step functions called by placeOrder, in call order
    calls,          \* outbound requests sent, in send order
    failed,         \* steps that had a call answered with an error or a non-200
    logs,           \* warn/error lines written by placeOrder itself
    outcome,        \* "none" | "Complete" | "Aborted"
    httpResp,       \* response written to the caller of /checkout
    ordersCounter,  \* app.checkout.orders_total{status=success}
    checkoutLatency \* number of samples in app.checkout.latency

\* The cart service (RunCartService and its three handlers) and its Redis.
VARIABLES
    store,          \* Redis: the hash stored under each cart key
    ttl,            \* Redis: whether the cart key has an expiry set
    creq,           \* the request each connection of the cart service handles
    cartOps,        \* number of cart requests accepted so far
    lastWrite,      \* the last command that changed each cart key
    lastConn        \* the connection whose request ran the last Redis command

\* The HTTP servers of the services, one request at a time.
VARIABLES
    ereq,           \* the request a service endpoint served last
    trail           \* what the server did with it, in program order

\* Context propagation between two services.
VARIABLES
    injected,       \* the context the sending service injected
    carrier,        \* the headers of the request on the wire
    received        \* the context the receiving service extracted

\* One iteration of the browser simulator (runSingleIteration).
VARIABLES
    bpc,            \* position inside runSingleIteration
    inflight,       \* the fetches whose promise is not settled yet
    settled,        \* the fetches of this iteration whose promise is settled
    issued          \* the fetches of this iteration, in the order of their req.end()

\* Start-up of the Go process (main.go) and the checkout package variables.
VARIABLES
    startCount,     \* the -count flag; -1 before main runs
    goPc,           \* how far each checkout entry point has got
    provider,       \* state of the tracer provider each entry point was given
    checkoutTracer, \* the package variable: the entry point whose tracer it holds
    initCount,      \* how often the package variables were assigned
    placing,        \* the tracers the in-flight placeOrder of each entry point used
    ordersLeft      \* iterations the batch loop still has to run

\* One outgoing request of makeRequest or simulateFetch, event by event.
VARIABLES
    hreq,           \* the http.ClientRequest: who made it, for what, how far it is
    clientSpan,     \* the client span of the request
    promise         \* the promise the function returned

checkoutVars ==
    <<txn, mode, pc, step, k, stepErr, hung, now, spans, entered, calls,
      failed, logs, outcome, httpResp, ordersCounter, checkoutLatency>>

cartVars == <<store, ttl, creq, cartOps, lastWrite, lastConn>>

endpointVars == <<ereq, trail>>

propagationVars == <<injected, carrier, received>>

browserVars == <<bpc, inflight, settled, issued>>

requestVars == <<hreq, clientSpan, promise>>

startupVars == <<startCount, goPc, provider, checkoutTracer, initCount, placing, ordersLeft>>

\* What the checkout orchestrator leaves alone.
outsideCheckout == <<cartVars, endpointVars, propagationVars, browserVars, startupVars, requestVars>>

\* What the cart service leaves alone.
outsideCart == <<checkoutVars, endpointVars, propagationVars, browserVars, startupVars, requestVars>>

\* What the service endpoints leave alone.
outsideEndpoint == <<checkoutVars, cartVars, propagationVars, browserVars, startupVars, requestVars>>

\* What the propagators leave alone.
outsidePropagation == <<checkoutVars, cartVars, endpointVars, browserVars, startupVars, requestVars>>

\* What the browser simulator leaves alone.
outsideBrowser == <<checkoutVars, cartVars, endpointVars, propagationVars, startupVars, requestVars>>

\* What start-up leaves alone.
outsideStartup == <<checkoutVars, cartVars, endpointVars, propagationVars, browserVars, requestVars>>

\* What one outgoing request leaves alone.
outsideRequest == <<checkoutVars, cartVars, endpointVars, propagationVars, browserVars, startupVars>>

vars == <<checkoutVars, cartVars, endpointVars, propagationVars, browserVars, startupVars, requestVars>>

----------------------------------------------------------------------------
\* The calls placeOrder makes, in program order (checkout.go:155-211).
StepOrder ==
    << "prepareOrderItems", "getProductDetails", "getCurrencyConversion",
       "getRecommendations", "getAds", "chargeCard", "shipOrder",
       "sendOrderConfirmation", "publishToKafka" >>

\* A variant that leaves out the call of getRecommendations.
NextStepSkipping(s) == IF s = 3 THEN s + 2 ELSE s + 1

\* The statement placeOrder runs after step s returned without aborting.
NextStep(s) == s + 1

\* A variant in which chargeCard starts a client span.
StepKindChargeClient(name) ==
    IF name \in {"getProductDetails", "getCurrencyConversion", "getRecommendations",
                 "getAds", "chargeCard"} THEN "client"
    ELSE IF name = "publishToKafka" THEN "producer" ELSE "internal"

\* The span kind each step function passes to checkoutTracer.Start
\* (no WithSpanKind option means SpanKindInternal).
StepKind(name) ==
    CASE name = "prepareOrderItems"     -> "internal"
      [] name = "getProductDetails"     -> "client"
      [] name = "getCurrencyConversion" -> "client"
      [] name = "getRecommendations"    -> "client"
      [] name = "getAds"                -> "client"
      [] name = "chargeCard"            -> "internal"
      [] name = "shipOrder"             -> "internal"
      [] name = "sendOrderConfirmation" -> "internal"
      [] name = "publishToKafka"        -> "producer"

\* The name each step function gives its span.
StepSpanName(name) ==
    CASE name = "prepareOrderItems" -> "prepareOrderItemsAndShippingQuoteFromCart"
      [] name = "publishToKafka"    -> "orders publish"
      [] OTHER                      -> name

\* n copies of x
Repeat(x, n) == [i \in 1..n |-> x]

\* A variant in which prepareOrderItems reads the cart before it adds the items.
StepCallsGetCartFirst(name) ==
    CASE name = "prepareOrderItems"     ->
            << "cart" >> \o Repeat("cart/add", itemCount) \o << "cart/empty" >>
      [] name = "getProductDetails"     -> Repeat("products", itemCount)
      [] name = "publishToKafka"        ->
            << "accounting/consume", "fraud-detection/consume" >>
      [] name = "getCurrencyConversion" -> << "convert" >>
      [] name = "getRecommendations"    -> << "recommendations" >>
      [] name = "getAds"                -> << "ads" >>
      [] name = "chargeCard"            -> << "charge" >>
      [] name = "shipOrder"             -> << "ship" >>
      [] name = "sendOrderConfirmation" -> << "send" >>

\* The requests each step function sends with client.Do, in program order.
StepCalls(name) ==
    CASE name = "prepareOrderItems"     ->
            Repeat("cart/add", itemCount) \o << "cart", "cart/empty" >>
      [] name = "getProductDetails"     -> Repeat("products", itemCount)
      [] name = "getCurrencyConversion" -> << "convert" >>
      [] name = "getRecommendations"    -> << "recommendations" >>
      [] name = "getAds"                -> << "ads" >>
      [] name = "chargeCard"            -> << "charge" >>
      [] name = "shipOrder"             -> << "ship" >>
      [] name = "sendOrderConfirmation" -> << "send" >>
      [] name = "publishToKafka"        ->
            << "accounting/consume", "fraud-detection/consume" >>

\* What the environment answers to one request.
Outcomes == {"ok", "non200", "err"}

\* A variant in which prepareOrderItems returns the error of a cart call.
StepReturnsErrOnCart(name, o) ==
    \/ name \in {"chargeCard", "shipOrder", "sendOrderConfirmation"}
          /\ o \in {"err", "non200"}
    \/ name = "prepareOrderItems" /\ o = "err"

\* Whether the step function returns a non-nil error for this answer:
\* chargeCard, shipOrder and sendOrderConfirmation return err on a transport
\* error and on resp.StatusCode != 200; prepareOrderItems returns nil always;
\* the other step functions return nothing.
StepReturnsErr(name, o) ==
    /\ name \in {"chargeCard", "shipOrder", "sendOrderConfirmation"}
    /\ o \in {"err", "non200"}

\* A variant that also returns after a failed ads call.
AbortsOnAdsFailure(name) ==
    \/ stepErr /\ name \in {"prepareOrderItems", "chargeCard", "shipOrder"}
    \/ name = "getAds" /\ name \in failed

\* A variant that also returns after a failed email step.
AbortsOnEmailFailure(name) ==
    stepErr /\ name \in {"prepareOrderItems", "chargeCard", "shipOrder",
                         "sendOrderConfirmation"}

\* placeOrder's `if err != nil { ...; return }` after a step: present after
\* prepareOrderItems, chargeCard and shipOrder only.
Aborts(name) ==
    stepErr /\ name \in {"prepareOrderItems", "chargeCard", "shipOrder"}

\* The message placeOrder logs when a step returned an error.
StepLog(name) ==
    CASE name = "prepareOrderItems"     -> "Prepare failed"
      [] name = "chargeCard"            -> "Payment failed"
      [] name = "shipOrder"             -> "Shipping failed"
      [] name = "sendOrderConfirmation" -> "Email failed"
      [] OTHER                          -> "none"

\* The event placeOrder adds to the root span after each step.
StepEvent(name) ==
    CASE name = "prepareOrderItems"     -> "prepared"
      [] name = "getProductDetails"     -> "product_details_fetched"
      [] name = "getCurrencyConversion" -> "currency_converted"
      [] name = "getRecommendations"    -> "recommendations_fetched"
      [] name = "getAds"                -> "ads_fetched"
      [] name = "chargeCard"            -> "charged"
      [] name = "shipOrder"             -> "shipped"
      [] name = "sendOrderConfirmation" -> "email_sent"
      [] name = "publishToKafka"        -> "published_to_kafka"

----------------------------------------------------------------------------
\* Spans.  A span is identified by its index in spans; parent = 0 means no
\* parent, a negative parent is a remote span of the caller.

\* The context the otelhttp handler extracts from a well-formed traceparent.
RemoteCtx == [trace |-> 900, span |-> 0 - 1]

\* The traceparent header of a /checkout request.
Headers == {"absent", "malformed", "valid"}

\* A variant that starts every span from an empty context.
StartSpanDetached(name, kind, parent, trace) ==
    [ name |-> name, kind |-> kind, trace |-> trace + 1000, parent |-> 0,
      start |-> now, endTime |-> 0 - 1, ends |-> 0,
      status |-> "unset", events |-> << >> ]

\* tracer.Start(ctx, name, kind): a new span that takes trace id and parent
\* from the span in ctx (parent = 0: no span in ctx, a new trace id is minted).
StartSpan(name, kind, parent, trace) ==
    [ name |-> name, kind |-> kind, trace |-> trace, parent |-> parent,
      start |-> now, endTime |-> 0 - 1, ends |-> 0,
      status |-> "unset", events |-> << >> ]

\* span.End(): the first call sets the end time.
EndSpan(s, t) ==
    [ s EXCEPT !.ends = @ + 1,
               !.endTime = IF s.ends = 0 THEN t ELSE @ ]

\* span.RecordError(err) of the Go SDK: records an exception event and leaves
\* the status as it is (no SetStatus call follows it in placeOrder).
RecordError(s) == [ s EXCEPT !.events = Append(@, "exception") ]

\* A variant that records the newest event first.
AddEventInFront(s, e) == [ s EXCEPT !.events = << e >> \o @ ]

\* span.AddEvent(name)
AddEvent(s, e) == [ s EXCEPT !.events = Append(@, e) ]

Root == spans[1]
StepName == StepOrder[step]

----------------------------------------------------------------------------
CheckoutInit ==
    /\ txn = 0
    /\ mode = "none"
    /\ pc = "idle"
    /\ step = 0
    /\ k = 0
    /\ stepErr = FALSE
    /\ hung = FALSE
    /\ now = 0
    /\ spans = << >>
    /\ entered = << >>
    /\ calls = << >>
    /\ failed = {}
    /\ logs = {}
    /\ outcome = "none"
    /\ httpResp = [status |-> 0, body |-> "none"]
    /\ ordersCounter = 0
    /\ checkoutLatency = 0

\* The state every placeOrder invocation starts from.
EnterPlaceOrder(m, root) ==
    /\ pc = "idle"
    /\ txn < MaxOrders
    /\ txn' = txn + 1
    /\ mode' = m
    /\ spans' = << root >>
    /\ now' = now + 1
    /\ pc' = "enter"
    /\ step' = 1
    /\ k' = 0
    /\ stepErr' = FALSE
    /\ hung' = FALSE
    /\ entered' = << >>
    /\ calls' = << >>
    /\ failed' = {}
    /\ logs' = {}
    /\ outcome' = "none"
    /\ httpResp' = [status |-> 0, body |-> "none"]
    /\ UNCHANGED <<ordersCounter, checkoutLatency>>
    /\ UNCHANGED outsideCheckout

\* RunCheckoutService: one iteration of the batch loop calls placeOrder with
\* context.Background(); placeOrder finds no valid span and starts the
\* PlaceOrder server span itself, in a new trace.
PlaceOrderBatch ==
    EnterPlaceOrder("batch", StartSpan("PlaceOrder", "server", 0, txn + 1))

\* InitCheckoutServer: the otelhttp handler of /checkout extracts the caller's
\* context, starts the PlaceOrder server span and calls placeOrder with it.
PlaceOrderHttp ==
    \E h \in Headers :
        EnterPlaceOrder("http",
            IF h = "valid"
            THEN StartSpan("PlaceOrder", "server", RemoteCtx.span, RemoteCtx.trace)
            ELSE StartSpan("PlaceOrder", "server", 0, txn + 1))

\* placeOrder calls the next step function, which starts its span from ctx.
StartStep ==
    /\ pc = "enter"
    /\ entered' = Append(entered, StepName)
    /\ spans' = Append(spans,
                  StartSpan(StepSpanName(StepName), StepKind(StepName), 1, Root.trace))
    /\ now' = now + 1
    /\ k' = 1
    /\ stepErr' = FALSE
    /\ pc' = "send"
    /\ UNCHANGED <<txn, mode, step, hung, calls, failed, logs, outcome,
                   httpResp, ordersCounter, checkoutLatency>>
    /\ UNCHANGED outsideCheckout

\* The span of the current step function.
StepSpanIdx == CHOOSE i \in DOMAIN spans : spans[i].name = StepSpanName(StepName)

\* client.Do(req): the otelhttp transport starts a client span under the span
\* of the request's context and sends the request.  The client has no
\* Timeout and the context no deadline.
ClientDo ==
    /\ pc = "send"
    /\ calls' = Append(calls, [step |-> StepName, req |-> k,
                               url |-> StepCalls(StepName)[k]])
    /\ spans' = Append(spans,
                  StartSpan("HTTP", "client", StepSpanIdx, spans[StepSpanIdx].trace))
    /\ now' = now + 1
    /\ pc' = "wait"
    /\ UNCHANGED <<txn, mode, step, k, stepErr, hung, entered, failed, logs,
                   outcome, httpResp, ordersCounter, checkoutLatency>>
    /\ UNCHANGED outsideCheckout

\* A variant in which a request that failed is sent again.
NextRequestRetrying(i, o) == IF o = "ok" THEN i + 1 ELSE i

\* The request a step function sends after its request i was answered with o:
\* the next client.Do statement in program order, whatever the answer was.
NextRequest(i, o) == i + 1

\* client.Do returns: the transport span ends, the step function looks at
\* the answer and sends its next request or returns.
Response ==
    /\ pc = "wait"
    /\ ~hung
    /\ \E o \in Outcomes :
        /\ spans' = [spans EXCEPT ![Len(spans)] = EndSpan(@, now)]
        /\ failed' = IF o = "ok" THEN failed ELSE failed \cup {StepName}
        /\ stepErr' = StepReturnsErr(StepName, o)
        /\ IF ~StepReturnsErr(StepName, o) /\ k < Len(StepCalls(StepName))
           THEN k' = NextRequest(k, o) /\ pc' = "send"
           ELSE k' = k /\ pc' = "ret"
    /\ now' = now + 1
    /\ UNCHANGED <<txn, mode, step, hung, entered, calls, logs, outcome,
                   httpResp, ordersCounter, checkoutLatency>>
    /\ UNCHANGED outsideCheckout

\* The downstream service accepted the request and never answers.  Nothing in
\* checkout.go ends the wait: http.Client.Timeout is zero, the batch context
\* is context.Background() and the handler's r.Context() has no deadline.  (A
\* /checkout caller that disconnects cancels r.Context(); client.Do then
\* returns an error, which is the "err" answer of Response.)
NoResponse ==
    /\ pc = "wait"
    /\ ~hung
    /\ hung' = TRUE
    /\ UNCHANGED <<txn, mode, pc, step, k, stepErr, now, spans, entered, calls,
                   failed, logs, outcome, httpResp, ordersCounter, checkoutLatency>>
    /\ UNCHANGED outsideCheckout

\* The step function returns (its deferred span.End() runs) and placeOrder
\* handles the result: on an error of a step it tests, RecordError, an error
\* log and return; otherwise a warning for a failed email, the step's event
\* on the root span and the next step.
StepReturn ==
    /\ pc = "ret"
    /\ LET ended == [spans EXCEPT ![StepSpanIdx] = EndSpan(@, now)]
       IN  IF Aborts(StepName)
           THEN /\ spans' = [ended EXCEPT ![1] = RecordError(@)]
                /\ logs' = logs \cup {StepLog(StepName)}
                /\ pc' = "abort"
                /\ step' = step
           ELSE /\ spans' = [ended EXCEPT ![1] = AddEvent(@, StepEvent(StepName))]
                /\ logs' = IF stepErr THEN logs \cup {StepLog(StepName)} ELSE logs
                /\ IF NextStep(step) <= Len(StepOrder)
                   THEN step' = NextStep(step) /\ pc' = "enter"
                   ELSE step' = step /\ pc' = "finish"
    /\ now' = now + 1
    /\ stepErr' = FALSE
    /\ UNCHANGED <<txn, mode, k, hung, entered, calls, failed, outcome,
                   httpResp, ordersCounter, checkoutLatency>>
    /\ UNCHANGED outsideCheckout

\* placeOrder returns to its caller: in batch mode the deferred span.End() of
\* the root runs; the /checkout handler writes its response and the otelhttp
\* handler ends the server span (status 200 leaves the span status unset).
ReturnToCaller(result) ==
    /\ outcome' = result
    /\ spans' = [spans EXCEPT ![1] = EndSpan(@, now)]
    /\ now' = now + 1
    /\ httpResp' = IF mode = "http"
                   THEN [status |-> 200, body |-> "order_placed"]
                   ELSE httpResp
    /\ pc' = "idle"

\* The last statements of placeOrder: final attributes, the orders counter,
\* the latency histogram, the success log.
PlaceOrderComplete ==
    /\ pc = "finish"
    /\ ordersCounter' = ordersCounter + 1
    /\ checkoutLatency' = checkoutLatency + 1
    /\ ReturnToCaller("Complete")
    /\ UNCHANGED <<txn, mode, step, k, stepErr, hung, entered, calls, failed, logs>>
    /\ UNCHANGED outsideCheckout

\* A variant that counts the order before the early return.
PlaceOrderAbortCounting ==
    /\ pc = "abort"
    /\ ordersCounter' = ordersCounter + 1
    /\ ReturnToCaller("Aborted")
    /\ UNCHANGED <<txn, mode, step, k, stepErr, hung, entered, calls, failed,
                   logs, checkoutLatency>>
    /\ UNCHANGED outsideCheckout

\* The early return of placeOrder after a failed step.
PlaceOrderAbort ==
    /\ pc = "abort"
    /\ ReturnToCaller("Aborted")
    /\ UNCHANGED <<txn, mode, step, k, stepErr, hung, entered, calls, failed,
                   logs, ordersCounter, checkoutLatency>>
    /\ UNCHANGED outsideCheckout

Next ==
    \/ PlaceOrderBatch
    \/ PlaceOrderHttp
    \/ StartStep
    \/ ClientDo
    \/ Response
    \/ NoResponse
    \/ StepReturn
    \/ PlaceOrderComplete
    \/ PlaceOrderAbort

----------------------------------------------------------------------------
\* The cart service: addItemHandler, getCartHandler and emptyCartHandler
\* keep each user's cart in the Redis hash "cart:<user_id>".  Requests are
\* served concurrently, one per connection; the Redis commands of different
\* requests interleave.

\* Number of cart requests explored.
MaxCartOps == 4

CartUsers == {"u1", "u2"}
CartProducts == {"p1", "p2"}
Connections == {1, 2}

\* A variant that draws the quantity with rand.Intn(3).
QuantitiesFromZero == 0..2

\* addItemHandler: quantity := rand.Intn(3) + 1
Quantities == 1..3

\* The user a handler works on: the user_id parameter, or a random user when
\* the parameter is empty.
ResolveUser(param) == IF param = "" THEN CartUsers ELSE {param}

\* The product addItemHandler adds: the product_id parameter, or
\* GetProductID() when the parameter is empty.
ResolveProduct(param) == IF param = "" THEN CartProducts ELSE {param}

\* The users and products the handlers work on, over all values of the
\* user_id and product_id parameters (present or empty).
RequestUsers == UNION {ResolveUser(up) : up \in CartUsers \cup {""}}
RequestProducts == UNION {ResolveProduct(pp) : pp \in CartProducts \cup {""}}

\* json.Marshal(CartItem{ProductID, Quantity}) and json.Unmarshal of it.
Marshal(item) == << "product_id", item.product_id, "quantity", item.quantity >>
Unmarshal(j) == [product_id |-> j[2], quantity |-> j[4]]

\* A variant that adds the new quantity to the one the field holds.
HSetSumming(h, field, value) ==
    [f \in DOMAIN h \cup {field} |->
        IF f # field THEN h[f]
        ELSE IF field \in DOMAIN h
             THEN << value[1], value[2], value[3], value[4] + h[field][4] >>
             ELSE value]

\* Redis HSET key field value: sets the field, keeping the other fields.
HSet(h, field, value) ==
    [f \in DOMAIN h \cup {field} |-> IF f = field THEN value ELSE h[f]]

\* Redis DEL key: no field is left.
Del(h) == [f \in {} |-> << >>]

\* getCartHandler: the sum of the quantities of the items HGETALL returned.
RECURSIVE SumQuantities(_, _)
SumQuantities(h, fields) ==
    IF fields = {} THEN 0
    ELSE LET f == CHOOSE x \in fields : TRUE
         IN  Unmarshal(h[f]).quantity + SumQuantities(h, fields \ {f})

TotalItems(h) == SumQuantities(h, DOMAIN h)

NoWrite == [op |-> "none", product |-> ""]

IdleReq == [op |-> "none", user |-> "", pc |-> "idle", status |-> 0,
            count |-> 0, saw |-> NoWrite]

CartInit ==
    /\ store = [u \in CartUsers |-> Del(<< >>)]
    /\ ttl = [u \in CartUsers |-> FALSE]
    /\ creq = [c \in Connections |-> IdleReq]
    /\ cartOps = 0
    /\ lastWrite = [u \in CartUsers |-> NoWrite]
    /\ lastConn = 0

\* A connection is free for the next request.
Free(c) == creq[c].pc \in {"idle", "done"} /\ cartOps < MaxCartOps

\* POST /cart/add, addItemHandler up to its first Redis command: it reads
\* its parameters, draws a quantity and runs HSET cart:<user> <product>
\* <item>; on an error it answers 500 and returns.
AddItemHSet(c) ==
    /\ Free(c)
    /\ \E u \in RequestUsers, p \in RequestProducts, q \in Quantities :
       \E ok \in BOOLEAN :
          LET item == [product_id |-> p, quantity |-> q]
          IN  IF ok
              THEN /\ store' = [store EXCEPT ![u] = HSet(@, p, Marshal(item))]
                   /\ lastWrite' = [lastWrite EXCEPT ![u] =
                                      [op |-> "hset", product |-> p]]
                   /\ creq' = [creq EXCEPT ![c] =
                                 [IdleReq EXCEPT !.op = "add", !.user = u,
                                                 !.pc = "expire"]]
              ELSE /\ creq' = [creq EXCEPT ![c] =
                                 [IdleReq EXCEPT !.op = "add", !.user = u,
                                                 !.pc = "done", !.status = 500]]
                   /\ UNCHANGED <<store, lastWrite>>
    /\ cartOps' = cartOps + 1
    /\ UNCHANGED ttl
    /\ lastConn' = c
    /\ UNCHANGED outsideCart

\* addItemHandler after HSET: EXPIRE cart:<user> 1h (its result is not
\* looked at), then the metrics, the log line and the 200 response.
AddItemExpire(c) ==
    /\ creq[c].pc = "expire"
    /\ \E ok \in BOOLEAN :
          ttl' = [ttl EXCEPT ![creq[c].user] =
                    IF ok /\ DOMAIN store[creq[c].user] # {} THEN TRUE ELSE @]
    /\ creq' = [creq EXCEPT ![c].pc = "done", ![c].status = 200]
    /\ UNCHANGED <<store, cartOps, lastWrite>>
    /\ lastConn' = c
    /\ UNCHANGED outsideCart

\* GET /cart, getCartHandler: it reads its parameter, runs HGETALL
\* cart:<user>, sums the quantities and answers 200 with items_count; on an
\* error of the command it answers 500.
GetCart(c) ==
    /\ Free(c)
    /\ \E u \in RequestUsers : \E ok \in BOOLEAN :
          creq' = [creq EXCEPT ![c] =
                     IF ok
                     THEN [IdleReq EXCEPT !.op = "get", !.user = u,
                                          !.pc = "done", !.status = 200,
                                          !.count = TotalItems(store[u]),
                                          !.saw = lastWrite[u]]
                     ELSE [IdleReq EXCEPT !.op = "get", !.user = u,
                                          !.pc = "done", !.status = 500]]
    /\ cartOps' = cartOps + 1
    /\ UNCHANGED <<store, ttl, lastWrite>>
    /\ lastConn' = c
    /\ UNCHANGED outsideCart

\* POST /cart/empty, emptyCartHandler: it reads its parameter, runs DEL
\* cart:<user> and answers 200; on an error of the command it answers 500.
EmptyCart(c) ==
    /\ Free(c)
    /\ \E u \in RequestUsers : \E ok \in BOOLEAN :
          IF ok
          THEN /\ store' = [store EXCEPT ![u] = Del(@)]
               /\ ttl' = [ttl EXCEPT ![u] = FALSE]
               /\ lastWrite' = [lastWrite EXCEPT ![u] =
                                  [op |-> "del", product |-> ""]]
               /\ creq' = [creq EXCEPT ![c] =
                             [IdleReq EXCEPT !.op = "empty", !.user = u,
                                             !.pc = "done", !.status = 200]]
          ELSE /\ creq' = [creq EXCEPT ![c] =
                             [IdleReq EXCEPT !.op = "empty", !.user = u,
                                             !.pc = "done", !.status = 500]]
               /\ UNCHANGED <<store, ttl, lastWrite>>
    /\ cartOps' = cartOps + 1
    /\ lastConn' = c
    /\ UNCHANGED outsideCart

\* Redis: the hour set by EXPIRE has passed and the key is removed.
KeyExpires(u) ==
    /\ ttl[u]
    /\ store' = [store EXCEPT ![u] = Del(@)]
    /\ ttl' = [ttl EXCEPT ![u] = FALSE]
    /\ lastWrite' = [lastWrite EXCEPT ![u] = [op |-> "expired", product |-> ""]]
    /\ UNCHANGED <<creq, cartOps>>
    /\ UNCHANGED lastConn
    /\ UNCHANGED outsideCart

CartNext ==
    \/ \E c \in Connections : AddItemHSet(c)
    \/ \E c \in Connections : AddItemExpire(c)
    \/ \E c \in Connections : GetCart(c)
    \/ \E c \in Connections : EmptyCart(c)
    \/ \E u \in CartUsers : KeyExpires(u)

----------------------------------------------------------------------------
\* The service endpoints.  A server is written as the sequence of effects it
\* has on its span, its response, its instruments and its outbound socket for
\* one request, in the order of the statements that cause them.

Services ==
    {"frontend", "payment", "email", "ad", "cart", "shipping",
     "product-catalog", "currency", "checkout", "accounting", "fraud-detection"}

GoServices ==
    {"cart", "shipping", "product-catalog", "currency", "checkout",
     "accounting", "fraud-detection"}

Methods == {"GET", "POST"}

\* One effect: operation op with argument arg on object on.
Eff(op, arg, on) == [op |-> op, arg |-> arg, on |-> on]

\* A variant that takes a malformed traceparent for the caller's context.
ExtractKeepingMalformed(hdr) == IF hdr = "absent" THEN "root" ELSE "remote"

\* propagation.extract / the otelhttp handler: the parent of the server span
\* is the caller's span for a well-formed traceparent; otherwise the context
\* stays without a span and the server span starts a new trace.
Extract(hdr) == IF hdr = "valid" THEN "remote" ELSE "root"

\* payment.js, email.js, ad service: the else branch of the request listener.
NotFound == << Eff("writeHead", "404", "response"), Eff("end", "not_found", "response") >>

\* The health answer of frontend.js:29-33, checkout.go:106-109 and
\* fraud_detection.go:55-58 and :194-197.
HealthOk == << Eff("writeHead", "200", "response"), Eff("end", "status_ok", "response") >>

\* A variant that ends the span before it writes the response.
handleChargeEndingFirst(parent, o) ==
    << Eff("startSpan", parent, "server"),
       Eff("setAttribute", "app.payment.charged", "server"),
       Eff("setAttributes", "card", "server"),
       Eff("random", o, "rng") >>
    \o (IF o = "failed"
        THEN << Eff("recordException", "insufficient funds", "server"),
                Eff("setStatus", "error", "server"),
                Eff("addEvent", "payment_failed", "server"),
                Eff("counter", "failed", "meter"),
                Eff("spanEnd", "charge", "server"),
                Eff("writeHead", "402", "response"),
                Eff("end", "error", "response") >>
        ELSE << Eff("addEvent", "payment_successful", "server"),
                Eff("counter", "success", "meter"),
                Eff("emitLog", "INFO", "logger"),
                Eff("spanEnd", "charge", "server"),
                Eff("writeHead", "200", "response"),
                Eff("end", "transaction", "response") >>)
    \o << Eff("histogram", "latency", "meter") >>

\* payment.js handleCharge; o is the result of Math.random() < 0.05.
handleCharge(parent, o) ==
    << Eff("startSpan", parent, "server"),
       Eff("setAttribute", "app.payment.charged", "server"),
       Eff("setAttributes", "card", "server"),
       Eff("random", o, "rng") >>
    \o (IF o = "failed"
        THEN << Eff("recordException", "insufficient funds", "server"),
                Eff("setStatus", "error", "server"),
                Eff("addEvent", "payment_failed", "server"),
                Eff("counter", "failed", "meter"),
                Eff("writeHead", "402", "response"),
                Eff("end", "error", "response") >>
        ELSE << Eff("addEvent", "payment_successful", "server"),
                Eff("counter", "success", "meter"),
                Eff("emitLog", "INFO", "logger"),
                Eff("writeHead", "200", "response"),
                Eff("end", "transaction", "response") >>)
    \o << Eff("histogram", "latency", "meter"),
          Eff("spanEnd", "charge", "server") >>

\* payment.js:18-28
paymentServer(method, path, hdr, o) ==
    << Eff("extract", hdr, "context") >>
    \o (IF path = "/charge" /\ method = "POST"
        THEN handleCharge(Extract(hdr), o)
        ELSE NotFound)

\* A variant that answers 200 when the mail could not be sent.
handleSendEmailAlwaysOk(parent, o) ==
    << Eff("startSpan", parent, "server"),
       Eff("setAttributes", "order", "server"),
       Eff("random", o, "rng") >>
    \o (IF o = "failed"
        THEN << Eff("recordException", "SMTP connection failed", "server"),
                Eff("setStatus", "error", "server"),
                Eff("addEvent", "email_failed", "server"),
                Eff("counter", "failed", "meter"),
                Eff("writeHead", "200", "response"),
                Eff("end", "error", "response") >>
        ELSE << Eff("setAttribute", "app.email.message_id", "server"),
                Eff("addEvent", "email_sent", "server"),
                Eff("counter", "sent", "meter"),
                Eff("emitLog", "INFO", "logger"),
                Eff("writeHead", "200", "response"),
                Eff("end", "message", "response") >>)
    \o << Eff("histogram", "latency", "meter"),
          Eff("spanEnd", "sendOrderConfirmation", "server") >>

\* email.js handleSendEmail; o is the result of Math.random() < 0.02.
handleSendEmail(parent, o) ==
    << Eff("startSpan", parent, "server"),
       Eff("setAttributes", "order", "server"),
       Eff("random", o, "rng") >>
    \o (IF o = "failed"
        THEN << Eff("recordException", "SMTP connection failed", "server"),
                Eff("setStatus", "error", "server"),
                Eff("addEvent", "email_failed", "server"),
                Eff("counter", "failed", "meter"),
                Eff("writeHead", "500", "response"),
                Eff("end", "error", "response") >>
        ELSE << Eff("setAttribute", "app.email.message_id", "server"),
                Eff("addEvent", "email_sent", "server"),
                Eff("counter", "sent", "meter"),
                Eff("emitLog", "INFO", "logger"),
                Eff("writeHead", "200", "response"),
                Eff("end", "message", "response") >>)
    \o << Eff("histogram", "latency", "meter"),
          Eff("spanEnd", "sendOrderConfirmation", "server") >>

\* email.js:15-25
emailServer(method, path, hdr, o) ==
    << Eff("extract", hdr, "context") >>
    \o (IF path = "/send" /\ method = "POST"
        THEN handleSendEmail(Extract(hdr), o)
        ELSE NotFound)

\* The ad service's handleGetAds: no simulated failure.
handleGetAds(parent) ==
    << Eff("startSpan", parent, "server"),
       Eff("setAttribute", "app.ads.contextKeys", "server"),
       Eff("setAttribute", "app.ads.contextKeys.count", "server"),
       Eff("random", "ads", "rng"),
       Eff("setAttributes", "ad_types", "server"),
       Eff("counter", "served", "meter"),
       Eff("emitLog", "INFO", "logger"),
       Eff("writeHead", "200", "response"),
       Eff("end", "ads", "response"),
       Eff("spanEnd", "getAds", "server") >>

\* The ad service's request listener.
adServer(method, path, hdr) ==
    << Eff("extract", hdr, "context") >>
    \o (IF path \in {"/ads", "/"} THEN handleGetAds(Extract(hdr)) ELSE NotFound)

\* How an outbound request of a service endpoint ends.
MakeRequestResults == {"ok", "non2xx", "error", "timeout"}

\* A variant whose 'error' listener rejects the promise.
makeRequestRejecting(method, target, r) ==
    << Eff("startSpan", "server", "client"),
       Eff("setAttributes", "http", "client"),
       Eff("inject", "client", "context") >>
    \o (IF r \in {"ok", "non2xx"}
        THEN << Eff("send", target, "socket"),
                Eff("setAttribute", "http.status_code", "client"),
                Eff("spanEnd", "HTTP", "client"),
                Eff("resolve", "data", "promise") >>
        ELSE << Eff("send", target, "socket"),
                Eff("recordException", "error", "client"),
                Eff("setStatus", "error", "client"),
                Eff("spanEnd", "HTTP", "client"),
                Eff("reject", "error", "promise") >>)

\* frontend.js makeRequest: one http.request; the 'end', 'error' and
\* 'timeout' listeners.  req.destroy() in the timeout listener makes the
\* request emit 'error' as well.  http.request throws for a path it cannot
\* send (unescaped characters); the executor of the promise then throws.
makeRequest(method, target, r) ==
    << Eff("startSpan", "server", "client"),
       Eff("setAttributes", "http", "client"),
       Eff("inject", "client", "context") >>
    \o (CASE r \in {"ok", "non2xx"} ->
                << Eff("send", target, "socket"),
                   Eff("setAttribute", "http.status_code", "client"),
                   Eff("spanEnd", "HTTP", "client"),
                   Eff("resolve", "data", "promise") >>
          [] r = "error" ->
                << Eff("send", target, "socket"),
                   Eff("recordException", "error", "client"),
                   Eff("setStatus", "error", "client"),
                   Eff("spanEnd", "HTTP", "client"),
                   Eff("resolve", "error", "promise") >>
          [] r = "timeout" ->
                << Eff("send", target, "socket"),
                   Eff("destroy", target, "socket"),
                   Eff("setStatus", "error", "client"),
                   Eff("spanEnd", "HTTP", "client"),
                   Eff("resolve", "timeout", "promise"),
                   Eff("recordException", "socket hang up", "client"),
                   Eff("setStatus", "error", "client"),
                   Eff("spanEnd", "HTTP", "client"),
                   Eff("resolve", "error", "promise") >>
          [] r = "throws" ->
                << Eff("throw", target, "socket") >>)

\* Whether the promise of makeRequest was rejected: await then throws.
Rejected(t) == \E i \in DOMAIN t : t[i].op \in {"throw", "reject"}

\* What the promise of makeRequest is resolved with first.
Resolved(r) ==
    CASE r \in {"ok", "non2xx"} -> "data"
      [] r = "error"            -> "error"
      [] r = "timeout"          -> "timeout"
      [] OTHER                  -> "none"

\* frontend.js:50-87: the proxied routes and the request each one makes.
ProxyRoutes ==
    {"/api/products", "/api/products/1", "/api/cart", "/api/recommendations",
     "/api/checkout", "/api/ads", "/api/currencies"}

ProxyMethod(path) == IF path = "/api/checkout" THEN "POST" ELSE "GET"

ProxyTarget(path) ==
    CASE path = "/api/products"        -> "product-catalog/products"
      [] path = "/api/products/1"      -> "product-catalog/products/1"
      [] path = "/api/cart"            -> "cart/cart"
      [] path = "/api/recommendations" -> "recommendation/"
      [] path = "/api/checkout"        -> "checkout/checkout"
      [] path = "/api/ads"             -> "ad/ads"
      [] path = "/api/currencies"      -> "currency/currencies"

\* The routes that put a decoded query parameter into the path of the
\* request they make (frontend.js:62-64, 67-69).
ThrowingRoutes == {"/api/cart", "/api/recommendations"}

\* frontend.js:25-105, the request listener.
frontendServer(method, path, hdr, r) ==
    IF path = "/health" THEN HealthOk
    ELSE
        << Eff("extract", hdr, "context"),
           Eff("startSpan", Extract(hdr), "server"),
           Eff("counter", "request", "meter"),
           Eff("emitLog", "INFO", "logger") >>
        \o (CASE path \in {"/", "/index.html"} ->
                    << Eff("writeHead", "200", "response"),
                       Eff("end", "html", "response"),
                       Eff("setAttribute", "http.status_code", "server") >>
              [] path \in ProxyRoutes ->
                    LET t == makeRequest(ProxyMethod(path), ProxyTarget(path), r)
                    IN  << Eff("emitLog", "INFO", "logger") >> \o t
                        \o (IF Rejected(t)
                            THEN << Eff("emitLog", "ERROR", "logger"),
                                    Eff("recordException", "error", "server"),
                                    Eff("setStatus", "error", "server"),
                                    Eff("writeHead", "500", "response"),
                                    Eff("end", "error", "response") >>
                            ELSE << Eff("writeHead", "200", "response"),
                                    Eff("end", Resolved(r), "response"),
                                    Eff("setAttribute", "http.status_code", "server") >>)
              [] OTHER -> NotFound \o << Eff("setAttribute", "http.status_code", "server") >>)
        \o << Eff("spanEnd", "request", "server") >>

\* shipping.go calculateQuoteLocally
calculateQuoteLocally ==
    [eff |-> << Eff("setAttributes", "quote", "client"),
                Eff("addEvent", "Quote calculated locally", "client"),
                Eff("emitLog", "INFO", "logger"),
                Eff("histogram", "quote.duration", "meter") >>,
     err |-> FALSE]

\* A variant that returns an error for a non-2xx reply of the quote service.
createQuoteFromCountFailing(r) ==
    [eff |-> << Eff("startSpan", "server", "client"),
                Eff("emitLog", "INFO", "logger"),
                Eff("counter", "items", "meter"),
                Eff("send", "quote/quote", "socket"),
                Eff("recordException", "error", "client"),
                Eff("spanEnd", "createQuoteFromCount", "client") >>,
     err |-> r = "non2xx"]

\* shipping.go createQuoteFromCount: one client.Do with a 30 s timeout; a
\* transport error falls back to the local calculation.  span.End is deferred.
createQuoteFromCount(r) ==
    LET open == << Eff("startSpan", "server", "client"),
                   Eff("emitLog", "INFO", "logger"),
                   Eff("counter", "items", "meter"),
                   Eff("send", "quote/quote", "socket") >>
        done == << Eff("spanEnd", "createQuoteFromCount", "client") >>
    IN  IF r \in {"error", "timeout"}
        THEN [eff |-> open
                      \o << Eff("recordException", "error", "client"),
                            Eff("emitLog", "WARN", "logger") >>
                      \o calculateQuoteLocally.eff \o done,
              err |-> calculateQuoteLocally.err]
        ELSE [eff |-> open
                      \o << Eff("setAttributes", "quote", "client"),
                            Eff("addEvent", "Quote received from service", "client"),
                            Eff("emitLog", "INFO", "logger"),
                            Eff("histogram", "quote.duration", "meter") >>
                      \o done,
              err |-> FALSE]

\* shipping.go shipHandler
shipHandler(r) ==
    LET q == createQuoteFromCount(r)
    IN  << Eff("emitLog", "INFO", "logger") >> \o q.eff
        \o (IF q.err
            THEN << Eff("recordException", "error", "server"),
                    Eff("writeHead", "500", "response"),
                    Eff("end", "Failed to calculate quote", "response") >>
            ELSE << Eff("setAttributes", "shipping", "server"),
                    Eff("addEvent", "Received Quote", "server"),
                    Eff("emitLog", "INFO", "logger"),
                    Eff("writeHead", "200", "response"),
                    Eff("end", "tracking", "response") >>)

\* shipping.go getQuoteHandler
getQuoteHandler(r) ==
    LET q == createQuoteFromCount(r)
    IN  q.eff
        \o (IF q.err
            THEN << Eff("recordException", "error", "server"),
                    Eff("writeHead", "500", "response"),
                    Eff("end", "Failed to calculate quote", "response") >>
            ELSE << Eff("setAttributes", "quote", "server"),
                    Eff("emitLog", "INFO", "logger"),
                    Eff("writeHead", "200", "response"),
                    Eff("end", "quote", "response") >>)

\* The draw of detectFraud: rand.Float32() < 0.02.
FraudDraws == {"fraud", "clear"}

\* fraud_detection.go detectFraud: a span of its own, the draw, the counters
\* and one event; no status is set.  span.End is deferred.
detectFraud(r) ==
    << Eff("startSpan", "server", "detectFraud"),
       Eff("emitLog", "INFO", "logger"),
       Eff("setAttributes", "order", "detectFraud"),
       Eff("random", "0.02", "rng"),
       Eff("setAttributes", "app.fraud.detected", "detectFraud"),
       Eff("counter", "orders_scanned", "meter") >>
    \o (IF r = "fraud"
        THEN << Eff("counter", "frauds_detected", "meter"),
                Eff("addEvent", "fraud_detected", "detectFraud"),
                Eff("emitLog", "WARN", "logger") >>
        ELSE << Eff("addEvent", "order_cleared", "detectFraud"),
                Eff("emitLog", "INFO", "logger") >>)
    \o << Eff("spanEnd", "detectFraud", "detectFraud") >>

\* A variant that refuses a flagged order.
handleFraudConsumeRefusing(r) ==
    << Eff("setAttributes", "messaging", "server"),
       Eff("emitLog", "INFO", "logger") >>
    \o detectFraud(r)
    \o (IF r = "fraud"
        THEN << Eff("setStatus", "error", "server"),
                Eff("writeHead", "403", "response"),
                Eff("end", "is_fraud", "response") >>
        ELSE << Eff("writeHead", "200", "response"),
                Eff("end", "scanned", "response") >>)

\* fraud_detection.go handleFraudConsume
handleFraudConsume(r) ==
    << Eff("setAttributes", "messaging", "server"),
       Eff("emitLog", "INFO", "logger") >>
    \o detectFraud(r)
    \o << Eff("writeHead", "200", "response"),
          Eff("end", IF r = "fraud" THEN "is_fraud" ELSE "scanned", "response") >>

\* fraud_detection.go handleAccountingConsume and processOrder
handleAccountingConsume ==
    << Eff("setAttributes", "messaging", "server"),
       Eff("emitLog", "INFO", "logger"),
       Eff("startSpan", "server", "processOrder"),
       Eff("emitLog", "INFO", "logger"),
       Eff("setAttributes", "order", "processOrder"),
       Eff("counter", "orders_processed", "meter"),
       Eff("counter", "revenue", "meter"),
       Eff("addEvent", "order_recorded", "processOrder"),
       Eff("emitLog", "INFO", "logger"),
       Eff("spanEnd", "processOrder", "processOrder"),
       Eff("writeHead", "200", "response"),
       Eff("end", "processed", "response") >>

\* The patterns each Go service registers on its ServeMux with an otelhttp
\* handler.  A pattern ending in "/" matches every path below it.
MuxRoutes(svc) ==
    CASE svc = "cart"            -> {"/cart/add", "/cart", "/cart/empty"}
      [] svc = "shipping"        -> {"/ship", "/get-quote"}
      [] svc = "product-catalog" -> {"/products", "/products/1", "/products/search"}
      [] svc = "currency"        -> {"/convert", "/currencies"}
      [] svc = "checkout"        -> {"/checkout"}
      [] svc = "accounting"      -> {"/consume"}
      [] svc = "fraud-detection" -> {"/consume"}

\* The Go services that register /health with mux.HandleFunc.
MuxHealth == {"checkout", "accounting", "fraud-detection"}

\* The handler function behind a route of a Go service.
GoHandler(svc, path, r) ==
    CASE svc = "shipping" /\ path = "/ship"      -> shipHandler(r)
      [] svc = "shipping" /\ path = "/get-quote" -> getQuoteHandler(r)
      [] svc = "fraud-detection" -> handleFraudConsume(r)
      [] svc = "accounting"      -> handleAccountingConsume
      [] svc = "checkout" ->
            << Eff("placeOrder", "http", "server"),
               Eff("writeHead", "200", "response"),
               Eff("end", "order_placed", "response") >>
      [] OTHER -> << Eff("handler", path, "response") >>

\* A Go service: the ServeMux dispatch; otelhttp.NewHandler extracts the
\* context, starts the server span, runs the handler and ends the span.
goServer(svc, path, hdr, r) ==
    IF path \in MuxRoutes(svc)
    THEN << Eff("extract", hdr, "context"),
            Eff("startSpan", Extract(hdr), "server") >>
         \o GoHandler(svc, path, r)
         \o << Eff("spanEnd", "otelhttp", "server") >>
    ELSE IF path = "/health" /\ svc \in MuxHealth
    THEN HealthOk
    ELSE << Eff("writeHead", "404", "response"),
            Eff("end", "404 page not found", "response") >>

\* The paths tried on each service: its routes, /health and an unknown one.
RequestPaths(svc) ==
    CASE svc = "frontend" -> ProxyRoutes \cup {"/", "/index.html", "/health", "/nope"}
      [] svc = "payment"  -> {"/charge", "/health", "/nope"}
      [] svc = "email"    -> {"/send", "/health", "/nope"}
      [] svc = "ad"       -> {"/ads", "/", "/health", "/nope"}
      [] OTHER            -> MuxRoutes(svc) \cup {"/health", "/nope"}

\* The random draw or downstream result a request's handling depends on.
RequestResults(svc, method, path) ==
    CASE svc = "frontend" /\ path \in ThrowingRoutes        ->
                MakeRequestResults \cup {"throws"}
      [] svc = "frontend" /\ path \in ProxyRoutes           -> MakeRequestResults
      [] svc = "shipping" /\ path \in MuxRoutes("shipping") -> MakeRequestResults
      [] svc = "fraud-detection" /\ path = "/consume"       -> FraudDraws
      [] svc = "payment" /\ path = "/charge" /\ method = "POST" -> {"success", "failed"}
      [] svc = "email" /\ path = "/send" /\ method = "POST"     -> {"success", "failed"}
      [] OTHER -> {"none"}

\* What the server of svc does with one request.
Server(svc, method, path, hdr, r) ==
    CASE svc = "frontend" -> frontendServer(method, path, hdr, r)
      [] svc = "payment"  -> paymentServer(method, path, hdr, r)
      [] svc = "email"    -> emailServer(method, path, hdr, r)
      [] svc = "ad"       -> adServer(method, path, hdr)
      [] OTHER            -> goServer(svc, path, hdr, r)

NoRequest ==
    [svc |-> "none", method |-> "none", path |-> "none", hdr |-> "none", rnd |-> "none"]

EndpointInit ==
    /\ ereq = NoRequest
    /\ trail = << >>

\* The server of svc handles one request from arrival to the end of its span.
Serve(svc, method, path, hdr, r) ==
    /\ ereq' = [svc |-> svc, method |-> method, path |-> path, hdr |-> hdr, rnd |-> r]
    /\ trail' = Server(svc, method, path, hdr, r)
    /\ UNCHANGED outsideEndpoint

\* A request to one of the Node.js services.
NodeRequest ==
    \E svc \in Services \ GoServices, m \in Methods, h \in Headers :
        \E p \in RequestPaths(svc) :
            \E r \in RequestResults(svc, m, p) : Serve(svc, m, p, h, r)

\* A request to one of the Go services.
GoRequest ==
    \E svc \in GoServices, m \in Methods, h \in Headers :
        \E p \in RequestPaths(svc) :
            \E r \in RequestResults(svc, m, p) : Serve(svc, m, p, h, r)

EndpointNext == NodeRequest \/ GoRequest

\* The other processes of a checkout transaction that send requests of their
\* own: the frontend proxies /api/checkout to the checkout service, and the
\* shipping service asks the quote service when checkout calls /ship.  They
\* share no state with the checkout service; their requests are taken between
\* two of its orders.
ProxiedCheckout ==
    /\ pc = "idle"
    /\ \E r \in MakeRequestResults :
            Serve("frontend", "POST", "/api/checkout", "valid", r)

ShipRequest ==
    /\ pc = "idle"
    /\ \E r \in MakeRequestResults : Serve("shipping", "POST", "/ship", "valid", r)

\* Every process of a transaction that sends requests of its own.
CallNext == Next \/ ProxiedCheckout \/ ShipRequest

----------------------------------------------------------------------------
\* Context propagation: the global propagator that common/telemetry.js and
\* the Go InitTelemetry install, applied by propagation.inject in the sender
\* and propagation.extract (or the otelhttp handler) in the receiver.

\* Largest trace id and span id tried; 0 is the invalid id.
MaxId == 2

TraceIds == 0..MaxId
SpanIds == 0..MaxId

\* The baggage keys the services read, in the order they are serialised.
BaggageKeys == << "session.id", "synthetic_request" >>
BaggageValues == {"s1", "true"}

Baggages ==
    UNION { [K -> BaggageValues] : K \in SUBSET {BaggageKeys[i] : i \in DOMAIN BaggageKeys} }

Contexts ==
    [trace_id : TraceIds, span_id : SpanIds, sampled : BOOLEAN, baggage : Baggages]

\* A context without span and without baggage.
RootContext ==
    [trace_id |-> 0, span_id |-> 0, sampled |-> FALSE,
     baggage |-> [key \in {} |-> "none"]]

\* Before anything was extracted.
NoContext == [RootContext EXCEPT !.trace_id = 0 - 1, !.span_id = 0 - 1]

\* isSpanContextValid
IsValid(c) == c.trace_id \in 1..MaxId /\ c.span_id \in 1..MaxId

\* Headers of a request that carries neither traceparent nor baggage.
NoHeaders == [traceparent |-> << >>, baggage |-> << >>]

\* A variant of the global propagator without the baggage propagator.
PropagatorsTraceContextOnly == << "tracecontext" >>

\* The propagators of the CompositePropagator, in the order given.
Propagators == << "tracecontext", "baggage" >>

\* W3CTraceContextPropagator.inject: traceparent = version-traceid-spanid-flags,
\* written only for a valid span context.
TraceContextInject(c, h) ==
    IF IsValid(c)
    THEN [h EXCEPT !.traceparent =
              << "00", c.trace_id, c.span_id, IF c.sampled THEN "01" ELSE "00" >>]
    ELSE h

\* W3CBaggagePropagator.inject: baggage = key=value pairs, comma separated;
\* no header for an empty baggage.
BaggageInject(c, h) ==
    LET keys == SelectSeq(BaggageKeys, LAMBDA key : key \in DOMAIN c.baggage)
    IN  [h EXCEPT !.baggage = [i \in 1..Len(keys) |-> << keys[i], c.baggage[keys[i]] >>]]

\* W3CTraceContextPropagator.extract: a header that is absent or does not
\* parse leaves the context as it is.
TraceContextExtract(h, c) ==
    IF /\ Len(h.traceparent) = 4
       /\ h.traceparent[1] = "00"
       /\ h.traceparent[2] \in 1..MaxId
       /\ h.traceparent[3] \in 1..MaxId
       /\ h.traceparent[4] \in {"00", "01"}
    THEN [c EXCEPT !.trace_id = h.traceparent[2],
                   !.span_id = h.traceparent[3],
                   !.sampled = (h.traceparent[4] = "01")]
    ELSE c

\* W3CBaggagePropagator.extract
BaggageExtract(h, c) ==
    IF h.baggage = << >> THEN c
    ELSE [c EXCEPT !.baggage =
              [key \in {h.baggage[i][1] : i \in DOMAIN h.baggage} |->
                  LET i == CHOOSE j \in DOMAIN h.baggage : h.baggage[j][1] = key
                  IN  h.baggage[i][2]]]

RECURSIVE InjectWith(_, _, _)
\* CompositePropagator.inject: every propagator writes its header.
InjectWith(ps, c, h) ==
    IF ps = << >> THEN h
    ELSE InjectWith(Tail(ps), c,
            IF Head(ps) = "tracecontext" THEN TraceContextInject(c, h)
            ELSE BaggageInject(c, h))

RECURSIVE ExtractWith(_, _, _)
\* CompositePropagator.extract: every propagator reads its header.
ExtractWith(ps, h, c) ==
    IF ps = << >> THEN c
    ELSE ExtractWith(Tail(ps), h,
            IF Head(ps) = "tracecontext" THEN TraceContextExtract(h, c)
            ELSE BaggageExtract(h, c))

PropagationInit ==
    /\ injected = RootContext
    /\ carrier = NoHeaders
    /\ received = NoContext

\* propagation.inject(ctx, headers) in the sender, e.g. makeRequest.
Inject ==
    \E c \in Contexts :
        /\ injected' = c
        /\ carrier' = InjectWith(Propagators, c, NoHeaders)
        /\ received' = NoContext
        /\ UNCHANGED outsidePropagation

\* propagation.extract(context.active(), req.headers) in the receiver.
ExtractReceived ==
    /\ received = NoContext
    /\ received' = ExtractWith(Propagators, carrier, RootContext)
    /\ UNCHANGED <<injected, carrier>>
    /\ UNCHANGED outsidePropagation

PropagationNext == Inject \/ ExtractReceived

----------------------------------------------------------------------------
\* The browser simulator: runSingleIteration behind /trigger.

\* The four fetches passed to Promise.all, in argument order.
AuxiliaryFetches ==
    << "/api/products", "/api/cart", "/api/recommendations", "/api/ads" >>

Auxiliary == {AuxiliaryFetches[i] : i \in DOMAIN AuxiliaryFetches}

\* A variant that goes on as soon as one of the promises is settled.
PromiseAny(pending) == pending # Auxiliary

\* await Promise.all([...]) goes on when no promise is pending; simulateFetch
\* resolves its promise on response, error and timeout and never rejects it.
PromiseAll(pending) == pending = {}

BrowserInit ==
    /\ bpc = "idle"
    /\ inflight = {}
    /\ settled = {}
    /\ issued = << >>

\* /trigger: runSingleIteration calls simulateFetch four times, each of which
\* sends its request before it returns its promise.
Trigger ==
    /\ bpc \in {"idle", "done"}
    /\ bpc' = "fetching"
    /\ issued' = AuxiliaryFetches
    /\ inflight' = Auxiliary
    /\ settled' = {}
    /\ UNCHANGED outsideBrowser

\* The promise of one fetch is settled: 'end', 'error' or 'timeout'.
SettleFetch ==
    \E u \in inflight :
        /\ inflight' = inflight \ {u}
        /\ settled' = settled \cup {u}
        /\ bpc' = IF u = "/api/checkout" THEN "done" ELSE bpc
        /\ UNCHANGED issued
        /\ UNCHANGED outsideBrowser

\* await simulateFetch('/api/checkout', 'POST') after the Promise.all.
PostCheckout ==
    /\ bpc = "fetching"
    /\ PromiseAll(inflight \cap Auxiliary)
    /\ bpc' = "checkout"
    /\ issued' = Append(issued, "/api/checkout")
    /\ inflight' = inflight \cup {"/api/checkout"}
    /\ UNCHANGED settled
    /\ UNCHANGED outsideBrowser

\* The checkout service works on an order while the POST is in flight.
CheckoutWorks == bpc = "checkout" /\ Next

IterationNext == Trigger \/ SettleFetch \/ PostCheckout \/ CheckoutWorks

----------------------------------------------------------------------------
\* Start-up of the Go process: main and runAllServices (main.go:14-133) and
\* the package variables of the checkout service (checkout.go:25-31).

\* The largest -count flag explored: as many orders as the checkout service
\* is followed through.
MaxCount == MaxOrders

\* The most checkoutTracer.Start calls followed inside one placeOrder.
MaxUses == 2

\* The two entry points of the checkout service: InitCheckoutServer behind
\* the HTTP server and RunCheckoutService, the batch runner.
EntryPoints == {"server", "batch"}

NotPlacing == [active |-> FALSE, used |-> <<>>]

StartupInit ==
    /\ startCount = -1
    /\ goPc = [e \in EntryPoints |-> "off"]
    /\ provider = [e \in EntryPoints |-> "none"]
    /\ checkoutTracer = "none"
    /\ initCount = 0
    /\ placing = [e \in EntryPoints |-> NotPlacing]
    /\ ordersLeft = 0

\* -service=all: the goroutine of the checkout HTTP server is started
\* (main.go:104-111).
runAllServices(n) ==
    /\ startCount = -1
    /\ startCount' = n
    /\ goPc' = [goPc EXCEPT !["server"] = "launched"]
    /\ UNCHANGED <<provider, checkoutTracer, initCount, placing, ordersLeft>>
    /\ UNCHANGED outsideStartup

\* -service=checkout: main itself runs the batch runner (main.go:27-30).
mainCheckout(n) ==
    /\ startCount = -1
    /\ startCount' = n
    /\ goPc' = [goPc EXCEPT !["batch"] = "launched"]
    /\ UNCHANGED <<provider, checkoutTracer, initCount, placing, ordersLeft>>
    /\ UNCHANGED outsideStartup

\* After the two-second sleep, by which the HTTP server listens, the batch
\* goroutine is started if count > 0 (main.go:113-127).
LaunchBatch ==
    /\ startCount > 0
    /\ goPc["server"] = "ready"
    /\ goPc["batch"] = "off"
    /\ goPc' = [goPc EXCEPT !["batch"] = "launched"]
    /\ UNCHANGED <<startCount, provider, checkoutTracer, initCount, placing,
                   ordersLeft>>
    /\ UNCHANGED outsideStartup

\* common.InitTelemetry(ctx, "checkout"): each entry point gets a provider of
\* its own (main.go:107, 122).
InitTelemetry(e) ==
    /\ goPc[e] = "launched"
    /\ goPc' = [goPc EXCEPT ![e] = "telemetry"]
    /\ provider' = [provider EXCEPT ![e] = "live"]
    /\ UNCHANGED <<startCount, checkoutTracer, initCount, placing, ordersLeft>>
    /\ UNCHANGED outsideStartup

\* InitCheckoutServer assigns the package variables and the server starts to
\* listen (checkout.go:80-83, main.go:109-110).
InitCheckoutServer ==
    /\ goPc["server"] = "telemetry"
    /\ goPc' = [goPc EXCEPT !["server"] = "ready"]
    /\ checkoutTracer' = "server"
    /\ initCount' = initCount + 1
    /\ UNCHANGED <<startCount, provider, placing, ordersLeft>>
    /\ UNCHANGED outsideStartup

\* RunCheckoutService assigns the same package variables and enters its loop
\* (checkout.go:51-54, 65).
RunCheckoutService ==
    /\ goPc["batch"] = "telemetry"
    /\ goPc' = [goPc EXCEPT !["batch"] = "ready"]
    /\ checkoutTracer' = "batch"
    /\ initCount' = initCount + 1
    /\ ordersLeft' = startCount
    /\ UNCHANGED <<startCount, provider, placing>>
    /\ UNCHANGED outsideStartup

\* An entry point calls placeOrder: the HTTP handler for a request, the batch
\* loop for its next iteration (checkout.go:66, 87).
BeginOrder(e) ==
    /\ goPc[e] = "ready"
    /\ ~placing[e].active
    /\ e = "batch" => ordersLeft > 0
    /\ placing' = [placing EXCEPT ![e] = [active |-> TRUE, used |-> <<>>]]
    /\ UNCHANGED <<startCount, goPc, provider, checkoutTracer, initCount,
                   ordersLeft>>
    /\ UNCHANGED outsideStartup

\* A step of placeOrder starts a span with checkoutTracer.Start: it reads the
\* package variable at that moment (checkout.go:126, 251, 304).
OrderStep(e) ==
    /\ placing[e].active
    /\ Len(placing[e].used) < MaxUses
    /\ placing' = [placing EXCEPT ![e].used =
                     Append(@, [tracer |-> checkoutTracer,
                                state |-> provider[checkoutTracer]])]
    /\ UNCHANGED <<startCount, goPc, provider, checkoutTracer, initCount,
                   ordersLeft>>
    /\ UNCHANGED outsideStartup

\* A variant in which the batch loop ends after an aborted order.
EndOrderStoppingOnAbort(e) ==
    /\ placing[e].active
    /\ placing' = [placing EXCEPT ![e] = NotPlacing]
    /\ ordersLeft' = IF e # "batch" THEN ordersLeft
                     ELSE IF outcome = "Aborted" THEN 0 ELSE ordersLeft - 1
    /\ UNCHANGED <<startCount, goPc, provider, checkoutTracer, initCount>>
    /\ UNCHANGED outsideStartup

\* placeOrder returns to its entry point.
EndOrder(e) ==
    /\ placing[e].active
    /\ placing' = [placing EXCEPT ![e] = NotPlacing]
    /\ ordersLeft' = IF e = "batch" THEN ordersLeft - 1 ELSE ordersLeft
    /\ UNCHANGED <<startCount, goPc, provider, checkoutTracer, initCount>>
    /\ UNCHANGED outsideStartup

\* The batch loop is over: RunCheckoutService returns and the deferred
\* tel.Shutdown of its goroutine runs (main.go:123, part_001:128-138).
BatchReturn ==
    /\ goPc["batch"] = "ready"
    /\ ordersLeft = 0
    /\ ~placing["batch"].active
    /\ goPc' = [goPc EXCEPT !["batch"] = "done"]
    /\ provider' = [provider EXCEPT !["batch"] = "shutdown"]
    /\ UNCHANGED <<startCount, checkoutTracer, initCount, placing, ordersLeft>>
    /\ UNCHANGED outsideStartup

StartupNext ==
    \/ \E n \in 0..MaxCount : runAllServices(n)
    \/ \E n \in 1..MaxCount : mainCheckout(n)
    \/ LaunchBatch
    \/ \E e \in EntryPoints : InitTelemetry(e)
    \/ InitCheckoutServer
    \/ RunCheckoutService
    \/ \E e \in EntryPoints : BeginOrder(e)
    \/ \E e \in EntryPoints : OrderStep(e)
    \/ \E e \in EntryPoints : EndOrder(e)
    \/ BatchReturn

----------------------------------------------------------------------------
\* One outgoing Node.js request, event by event: makeRequest of the frontend
\* (frontend.js:107-152) and simulateFetch of the browser simulator
\* (part_000:156-225).  Both return a promise and register three listeners:
\* 'end' of the response, 'error' and 'timeout' of the request.

\* Status codes the answering server can send.
ResponseCodes == {200, 402, 500}

Bodies == {"", "data"}

NoFetch == [fn |-> "none", method |-> "none", url |-> "none", state |-> "idle"]

\* The requests the two functions are called for: makeRequest by the routes
\* of the frontend (frontend.js:47-91), simulateFetch by runSingleIteration
\* (part_000:302-318).
FetchCalls ==
    {[fn |-> "makeRequest", method |-> ProxyMethod(p), url |-> ProxyTarget(p)] :
        p \in ProxyRoutes}
    \cup {[fn |-> "simulateFetch", method |-> "GET", url |-> u] : u \in Auxiliary}
    \cup {[fn |-> "simulateFetch", method |-> "POST", url |-> "/api/checkout"]}

NoSpan == [started |-> FALSE, ends |-> 0, status |-> "unset", exceptions |-> 0,
           code |-> 0]

NoPromise == [state |-> "none", value |-> "none", resolves |-> 0, settles |-> 0]

RequestInit ==
    /\ hreq = NoFetch
    /\ clientSpan = NoSpan
    /\ promise = NoPromise

\* span.setStatus: the status of a span that has ended stays as it is.
SetStatus(s, status) ==
    IF s.ends > 0 THEN s ELSE [s EXCEPT !.status = status]

\* span.recordException: nothing is recorded on a span that has ended.
RecordException(s) ==
    IF s.ends > 0 THEN s ELSE [s EXCEPT !.exceptions = @ + 1]

\* span.setAttribute(s) with the status code of the response.
SetCode(s, code) ==
    IF s.ends > 0 THEN s ELSE [s EXCEPT !.code = code]

\* span.end(): every call is counted; only the first ends the span.
SpanEnd(s) == [s EXCEPT !.ends = @ + 1]

\* resolve(v): only the first call settles the promise.
Resolve(p, v) ==
    IF p.state = "pending"
    THEN [state |-> "resolved", value |-> v, resolves |-> p.resolves + 1,
          settles |-> p.settles + 1]
    ELSE [p EXCEPT !.resolves = @ + 1]

\* The function is called: the client span is started, the listeners are
\* registered and req.end() sends the request (frontend.js:108-150,
\* part_000:157-223).
SendRequest(call) ==
    /\ hreq.state \in {"idle", "closed"}
    /\ hreq' = [fn |-> call.fn, method |-> call.method, url |-> call.url,
                state |-> "sent"]
    /\ clientSpan' = [NoSpan EXCEPT !.started = TRUE]
    /\ promise' = [NoPromise EXCEPT !.state = "pending"]
    /\ UNCHANGED outsideRequest

\* res.on('end'): the response has been read (frontend.js:128-132,
\* part_000:192-201).
ResponseEnd(code, body) ==
    /\ hreq.state = "sent"
    /\ hreq' = [hreq EXCEPT !.state = "closed"]
    /\ clientSpan' =
         LET s1 == SetCode(clientSpan, code)
             s2 == IF hreq.fn = "simulateFetch" /\ code >= 400
                   THEN SetStatus(s1, "error") ELSE s1
         IN  SpanEnd(s2)
    /\ promise' =
         Resolve(promise, IF hreq.fn = "makeRequest" /\ body = ""
                          THEN "{}" ELSE body)
    /\ UNCHANGED outsideRequest

\* req.on('error'): a connection error, or the 'socket hang up' error that
\* req.destroy() raises for a request without a response (frontend.js:135-140,
\* part_000:204-212).
RequestError ==
    /\ hreq.state \in {"sent", "destroyed"}
    /\ hreq' = [hreq EXCEPT !.state = "closed"]
    /\ clientSpan' = SpanEnd(SetStatus(RecordException(clientSpan), "error"))
    /\ promise' =
         Resolve(promise, IF hreq.fn = "makeRequest" THEN "error" ELSE "null")
    /\ UNCHANGED outsideRequest

\* req.on('timeout'): the socket was idle for 30 s; the listener destroys
\* the request, sets the status, ends the span and resolves
\* (frontend.js:142-147, part_000:214-219).
RequestTimeout ==
    /\ hreq.state = "sent"
    /\ hreq' = [hreq EXCEPT !.state = "destroyed"]
    /\ clientSpan' = SpanEnd(SetStatus(clientSpan, "error"))
    /\ promise' =
         Resolve(promise, IF hreq.fn = "makeRequest" THEN "timeout" ELSE "null")
    /\ UNCHANGED outsideRequest

RequestNext ==
    \/ \E call \in FetchCalls : SendRequest(call)
    \/ \E code \in ResponseCodes, body \in Bodies : ResponseEnd(code, body)
    \/ RequestError
    \/ RequestTimeout

----------------------------------------------------------------------------
\* Specifications.

Init == CheckoutInit /\ CartInit /\ EndpointInit /\ PropagationInit /\ BrowserInit /\ StartupInit /\ RequestInit

\* The checkout orchestrator.
Spec == Init /\ [][Next]_vars

\* Every step of the program that can be taken is eventually taken.
FairSpec == Spec /\ WF_vars(Next)

\* The cart service.
CartSpec == Init /\ [][CartNext]_vars

\* The service endpoints.
EndpointSpec == Init /\ [][EndpointNext]_vars

\* Injection into a request and extraction from it.
PropagationSpec == Init /\ [][PropagationNext]_vars

\* Browser iterations and the orders they place.
IterationSpec == Init /\ [][IterationNext]_vars

\* The checkout service together with the other senders of a transaction.
CallSpec == Init /\ [][CallNext]_vars

\* Start-up of the Go process and the orders its entry points place.
StartupSpec == Init /\ [][StartupNext]_vars

\* The outgoing requests of the frontend and the browser simulator.
RequestSpec == Init /\ [][RequestNext]_vars

----------------------------------------------------------------------------
TypeOK ==
    /\ txn \in 0..MaxOrders
    /\ mode \in {"none", "batch", "http"}
    /\ pc \in {"idle", "enter", "send", "wait", "ret", "finish", "abort"}
    /\ outcome \in {"none", "Complete", "Aborted"}
    /\ failed \subseteq {StepOrder[i] : i \in DOMAIN StepOrder}

----------------------------------------------------------------------------
\* Vocabulary of the properties.

\* The last placeOrder invocation has returned to its caller.
Done == pc = "idle" /\ txn > 0

\* placeOrder has called the step function.
Invoked(name) == \E i \in DOMAIN entered : entered[i] = name

\* The step function has returned.
Returned(name) ==
    \E i \in DOMAIN spans : spans[i].name = StepSpanName(name) /\ spans[i].ends > 0

\* The requests the step function has sent.
CallsOf(name) == {i \in DOMAIN calls : calls[i].step = name}

\* The spans of the step functions.
StepSpans == {i \in DOMAIN spans : i > 1 /\ spans[i].name # "HTTP"}

IsPrefix(s, t) == Len(s) <= Len(t) /\ \A i \in DOMAIN s : s[i] = t[i]

HardSteps == {"chargeCard", "shipOrder"}

----------------------------------------------------------------------------
\* C1: if the payment call of a transaction fails, ShipOrder, SendEmail and
\* PublishEvent are never invoked in it and its root span ends with
\* status = error.
C1_PaymentFailureAbortsWithErrorStatus ==
    "chargeCard" \in failed =>
        /\ ~Invoked("shipOrder")
        /\ ~Invoked("sendOrderConfirmation")
        /\ ~Invoked("publishToKafka")
        /\ Done => (Root.ends = 1 /\ Root.status = "error")

\* C2: when ChargePayment or ShipOrder fails in a transaction started by a
\* request to /checkout, the caller gets a non-2xx response; the 2xx
\* order_placed response is sent only for transactions that reached Complete.
C2_HardFailureSurfacesNon2xx ==
    /\ (Done /\ mode = "http" /\ failed \cap HardSteps # {}) =>
            httpResp.status \notin 200..299
    /\ (httpResp.status \in 200..299 /\ httpResp.body = "order_placed") =>
            outcome = "Complete"

\* C3: the steps of a transaction are entered in the fixed order PrepareCart,
\* FetchProductDetails, ConvertCurrency, FetchRecommendations, FetchAds,
\* ChargePayment, ShipOrder, SendEmail, PublishEvent: no step starts before
\* the previous one returned, none is skipped in a transaction that reaches
\* Complete, none is entered twice.
C3_FixedStepOrder ==
    LET fixed == << "prepareOrderItems", "getProductDetails",
                    "getCurrencyConversion", "getRecommendations", "getAds",
                    "chargeCard", "shipOrder", "sendOrderConfirmation",
                    "publishToKafka" >>
    IN  /\ IsPrefix(entered, fixed)
        /\ outcome = "Complete" => entered = fixed
        /\ Cardinality(StepSpans) = Len(entered)
        /\ \A i, j \in StepSpans :
              i < j => /\ spans[i].ends = 1
                       /\ spans[i].endTime <= spans[j].start
        /\ pc = "enter" => \A i \in StepSpans : spans[i].ends = 1

\* A transaction ran all nine steps and reached Complete.
C3_Witness == Done /\ outcome = "Complete" /\ Len(entered) = 9

\* C4 as stated: if the ads call fails the transaction still executes
\* ChargePayment, ShipOrder, SendEmail and PublishEvent and, when those
\* succeed, its root span ends with status = ok.
C4_AdsFailureEndsOk ==
    (Done /\ "getAds" \in failed /\ failed \cap HardSteps = {}) =>
        /\ \A n \in {"chargeCard", "shipOrder", "sendOrderConfirmation",
                     "publishToKafka"} : Invoked(n)
        /\ Root.status = "ok"

\* C4 amended: if the ads call fails, the transaction is not aborted by it:
\* it still executes ChargePayment and, unless ChargePayment or ShipOrder
\* fails, ShipOrder, SendEmail and PublishEvent, reaches Complete, and its
\* root span ends once with status unset (never error; ok is never set).
C4_AdsFailureIsSoft ==
    /\ ("getAds" \in failed /\ (pc = "abort" \/ outcome = "Aborted")) =>
            failed \cap HardSteps # {}
    /\ (Done /\ "getAds" \in failed) => Invoked("chargeCard")
    /\ (Done /\ "getAds" \in failed /\ failed \cap HardSteps = {}) =>
            /\ \A n \in {"chargeCard", "shipOrder", "sendOrderConfirmation",
                         "publishToKafka"} : Invoked(n) /\ Returned(n)
            /\ outcome = "Complete"
            /\ Root.ends = 1
            /\ Root.status = "unset"

\* A transaction whose ads call failed reached Complete.
C4_Witness ==
    Done /\ "getAds" \in failed /\ outcome = "Complete" /\ Returned("publishToKafka")

\* C5: if the shipping call fails after a successful payment, SendEmail and
\* PublishEvent are never invoked and the root span is marked as error.
C5_ShippingFailureAbortsWithErrorStatus ==
    ("shipOrder" \in failed /\ "chargeCard" \notin failed) =>
        /\ ~Invoked("sendOrderConfirmation")
        /\ ~Invoked("publishToKafka")
        /\ Done => (Root.ends = 1 /\ Root.status = "error")

\* C6: every outbound call completes or becomes a call failure within a
\* bounded timeout, so a transaction that was started always eventually
\* terminates (Complete or aborted), also when a downstream service never
\* answers.
C6_TransactionTerminates == (pc # "idle") ~> (pc = "idle")

\* C7: a failure of the email step is only logged: the transaction still
\* runs PublishEvent and reaches Complete; the same holds for a failure of
\* the recommendations step; neither aborts the sequence.
C7_EmailAndRecommendationFailuresAreSoft ==
    /\ (pc = "abort" \/ outcome = "Aborted") =>
          /\ failed \cap HardSteps # {}
          /\ entered[Len(entered)] \in HardSteps
    /\ ("sendOrderConfirmation" \in failed /\ Returned("sendOrderConfirmation")) =>
          /\ "Email failed" \in logs
          /\ \A i \in DOMAIN Root.events : Root.events[i] # "exception"
          /\ Root.status = "unset"
          /\ pc # "abort"
    /\ (Done /\ "sendOrderConfirmation" \in failed) =>
          Invoked("publishToKafka") /\ outcome = "Complete"
    /\ (Done /\ "getRecommendations" \in failed /\ failed \cap HardSteps = {}) =>
          Invoked("publishToKafka") /\ outcome = "Complete"

\* A transaction whose recommendations call and email step both failed
\* reached Complete.
C7_Witness ==
    /\ Done
    /\ {"sendOrderConfirmation", "getRecommendations"} \subseteq failed
    /\ outcome = "Complete"
    /\ "Email failed" \in logs

\* C8: every span that is started is eventually ended exactly once on every
\* path, and never ended before it was started.
C8_EverySpanEndedExactlyOnce ==
    /\ [](\A i \in DOMAIN spans :
            /\ spans[i].ends <= 1
            /\ spans[i].ends = 1 => spans[i].endTime >= spans[i].start)
    /\ ((\E i \in DOMAIN spans : spans[i].ends = 0)
            ~> (\A i \in DOMAIN spans : spans[i].ends = 1))

\* C9 as stated: each transition issues exactly one outbound call, wrapped
\* in its own client span whose parent is the root span.
C9_OneCallInClientSpanPerStep ==
    \A n \in {StepOrder[i] : i \in DOMAIN StepOrder} :
        Returned(n) =>
            /\ Cardinality(CallsOf(n)) = 1
            /\ \A i \in StepSpans :
                  spans[i].name = StepSpanName(n) =>
                      spans[i].kind = "client" /\ spans[i].parent = 1

\* C9 amended: each transition runs in exactly one span of its own whose
\* parent is the root span; the span is of kind client for
\* FetchProductDetails, ConvertCurrency, FetchRecommendations and FetchAds,
\* internal for PrepareCart, ChargePayment, ShipOrder and SendEmail, and
\* producer for PublishEvent; a transition issues five calls (PrepareCart),
\* three (FetchProductDetails), two (PublishEvent) or one (the others), each
\* in a transport client span whose parent is the transition's span.
C9_OneSpanPerStep ==
    LET kindOf(n) == IF n \in {"getProductDetails", "getCurrencyConversion",
                               "getRecommendations", "getAds"} THEN "client"
                     ELSE IF n = "publishToKafka" THEN "producer"
                     ELSE "internal"
        callsOf(n) == IF n = "prepareOrderItems" THEN 5
                      ELSE IF n = "getProductDetails" THEN 3
                      ELSE IF n = "publishToKafka" THEN 2
                      ELSE 1
    IN  \A n \in {StepOrder[i] : i \in DOMAIN StepOrder} :
          LET own == {i \in DOMAIN spans : spans[i].name = StepSpanName(n)}
          IN  /\ Invoked(n) <=> Cardinality(own) = 1
              /\ ~Invoked(n) => own = {} /\ CallsOf(n) = {}
              /\ \A i \in own :
                    /\ spans[i].kind = kindOf(n)
                    /\ spans[i].parent = 1
                    /\ Cardinality({j \in DOMAIN spans : spans[j].parent = i}) =
                          Cardinality(CallsOf(n))
                    /\ \A j \in DOMAIN spans :
                          spans[j].parent = i => spans[j].kind = "client"
              /\ Returned(n) => Cardinality(CallsOf(n)) = callsOf(n)

\* A completed transaction: nine step spans and sixteen outbound calls.
C9_Witness ==
    Done /\ outcome = "Complete" /\ Len(calls) = 16 /\ Cardinality(StepSpans) = 9

\* The span's parent chain reaches span 1 within n links.
RECURSIVE ReachesRoot(_, _)
ReachesRoot(i, n) ==
    IF i = 1 THEN TRUE
    ELSE IF n = 0 \/ i \notin DOMAIN spans THEN FALSE
    ELSE ReachesRoot(spans[i].parent, n - 1)

\* C10: the spans of one transaction all carry the same trace id, exactly
\* one of them has no parent in the trace (the root), every other span's
\* parent chain ends at the root, and a span's parent started no later than
\* the span.
C10_SingleRootedTrace ==
    spans # << >> =>
        /\ \A i \in DOMAIN spans : spans[i].trace = Root.trace
        /\ {i \in DOMAIN spans : spans[i].parent \notin DOMAIN spans} = {1}
        /\ \A i \in DOMAIN spans : ReachesRoot(i, Len(spans))
        /\ \A i \in DOMAIN spans :
              spans[i].parent \in DOMAIN spans =>
                  /\ spans[i].parent # i
                  /\ spans[spans[i].parent].start <= spans[i].start

\* An outbound call is in flight three levels below a remote caller's span.
C10_Witness ==
    /\ pc = "wait"
    /\ mode = "http"
    /\ Root.parent < 0
    /\ Len(spans) >= 3
    /\ spans[Len(spans)].parent > 1

----------------------------------------------------------------------------
\* The spans of the requests a step function has sent, in send order.
CallSpansOf(name) ==
    {j \in DOMAIN spans :
        /\ spans[j].parent \in DOMAIN spans
        /\ spans[j].parent > 1
        /\ spans[spans[j].parent].name = StepSpanName(name)}

\* C11: within PrepareCart the cart calls are issued in the order AddItem
\* (three times), GetCart, EmptyCart; GetCart is never issued before the last
\* AddItem returned and EmptyCart never before GetCart returned, also when an
\* earlier cart call failed.
C11_CartCallOrder ==
    LET order == << "cart/add", "cart/add", "cart/add", "cart", "cart/empty" >>
        sent  == CallsOf("prepareOrderItems")
    IN  /\ Cardinality(sent) <= Len(order)
        /\ \A i \in sent : i <= Len(order) /\ calls[i].url = order[i]
        /\ Returned("prepareOrderItems") => Cardinality(sent) = Len(order)
        /\ Cardinality(CallSpansOf("prepareOrderItems")) = Cardinality(sent)
        /\ \A i, j \in CallSpansOf("prepareOrderItems") :
              i < j => /\ spans[i].ends = 1
                       /\ spans[i].endTime <= spans[j].start

\* PrepareCart returned after five cart calls of which at least one failed.
C11_Witness ==
    /\ Returned("prepareOrderItems")
    /\ "prepareOrderItems" \in failed
    /\ Cardinality(CallsOf("prepareOrderItems")) = 5

----------------------------------------------------------------------------
\* The GetCart requests that were answered with 200.
AnsweredGets ==
    {c \in Connections :
        creq[c].op = "get" /\ creq[c].pc = "done" /\ creq[c].status = 200}

Ran(d) ==
    /\ lastConn' = d
    /\ cartOps' # cartOps \/ creq'[d].pc # creq[d].pc

\* C13: cart operations are atomic per user key: no other request on the
\* same user observes or acts between the store writes of one AddItem, and an
\* operation on user u never changes the cart of another user v.
C13_CartOperationsAtomicPerUser ==
    [][ /\ \A c \in Connections :
              creq[c].pc = "expire" =>
                  \A d \in Connections \ {c} :
                      Ran(d) => creq'[d].user # creq[c].user
        /\ \A v \in CartUsers :
              store'[v] # store[v] =>
                  \/ \E d \in Connections : Ran(d) /\ creq'[d].user = v
                  \/ ttl[v] /\ creq' = creq ]_vars

----------------------------------------------------------------------------
\* Vocabulary for the trail of a service endpoint.

\* The positions in t of operation op on object on.
At(t, op, on) == {i \in DOMAIN t : t[i].op = op /\ t[i].on = on}

\* The status codes written to the response, in order.
StatusCodes(t) ==
    [i \in 1..Len(SelectSeq(t, LAMBDA e : e.op = "writeHead")) |->
        SelectSeq(t, LAMBDA e : e.op = "writeHead")[i].arg]

\* The status of the server span.
ServerStatus(t) ==
    IF \E i \in At(t, "setStatus", "server") : t[i].arg = "error"
    THEN "error" ELSE "unset"

\* The requests the handler sent.
Sends(t) == At(t, "send", "socket")

\* What the server did apart from finding the parent of its span.
Handling(t) ==
    SelectSeq(t, LAMBDA e : ~(e.op = "extract" \/ (e.op = "startSpan" /\ e.on = "server")))

\* C14: no call is retried: in a checkout transaction every request of a step
\* is sent at most once, also when it failed, and the frontend gateway and a
\* service endpoint send at most one request for the request they handle.
C14_NoCallIsRetried ==
    /\ \A i, j \in DOMAIN calls :
          (calls[i].step = calls[j].step /\ calls[i].req = calls[j].req) => i = j
    /\ \A i \in DOMAIN entered :
          Cardinality(CallsOf(entered[i])) <= Len(StepCalls(entered[i]))
    /\ Cardinality(Sends(trail)) <= 1

C14_Witness ==
    /\ Done /\ outcome = "Complete" /\ failed # {}
    /\ ereq.svc = "frontend" /\ ereq.rnd = "error"
    /\ Cardinality(Sends(trail)) = 1

\* C15: the simulated-failure branch of payment /charge and of email /send
\* sets the server span's status to error and answers 402 (payment) or 500
\* (email); the success branch answers 200 and leaves the status not error;
\* exactly one response is written per request.
C15_FailureBranchAnswersNon2xx ==
    ereq.svc \in {"payment", "email"} =>
        /\ Len(StatusCodes(trail)) = 1
        /\ Cardinality(At(trail, "end", "response")) = 1
        /\ ereq.rnd = "failed" =>
              /\ ServerStatus(trail) = "error"
              /\ StatusCodes(trail) = << IF ereq.svc = "payment" THEN "402" ELSE "500" >>
        /\ ereq.rnd = "success" =>
              /\ ServerStatus(trail) # "error"
              /\ StatusCodes(trail) = << "200" >>

C15_Witness ==
    /\ ereq.svc = "email" /\ ereq.path = "/send" /\ ereq.rnd = "failed"
    /\ StatusCodes(trail) = << "500" >>

\* C16: every service endpoint process answers a request to /health with
\* status 200 and the body {"status":"ok"}, without creating a span.
C16_EveryServiceAnswersHealth ==
    (ereq.svc \in Services /\ ereq.path = "/health") =>
        /\ trail = HealthOk
        /\ At(trail, "startSpan", "server") = {}


\* The one position in t of operation op on object on.
The(t, op, on) == CHOOSE i \in At(t, op, on) : TRUE

\* The span calls that describe the result of a request.
ResultOps == {"setAttribute", "setAttributes", "addEvent", "setStatus", "recordException"}

C19_MalformedContextIsNotSurfaced ==
    [][ ereq'.hdr \in {"absent", "malformed"} =>
          /\ \A i \in At(trail', "startSpan", "server") : trail'[i].arg = "root"
          /\ ServerStatus(trail') = "error" => ereq'.rnd \in {"failed", "throws"}
          /\ ( /\ ereq.hdr = "valid"
               /\ ereq.svc = ereq'.svc /\ ereq.method = ereq'.method
               /\ ereq.path = ereq'.path /\ ereq.rnd = ereq'.rnd )
             => /\ Handling(trail') = Handling(trail)
                /\ StatusCodes(trail') = StatusCodes(trail) ]_vars

C19_Witness ==
    /\ ereq.svc = "payment" /\ ereq.path = "/charge" /\ ereq.method = "POST"
    /\ ereq.hdr = "malformed"
    /\ \E i \in At(trail, "startSpan", "server") : trail[i].arg = "root"
    /\ StatusCodes(trail) = << "200" >>

----------------------------------------------------------------------------
OpenCalls == {i \in DOMAIN spans : spans[i].name = "HTTP" /\ spans[i].ends = 0}

\* C20: within a transaction calls are issued one at a time, each after the
\* previous one returned; only the four auxiliary fetches of a browser
\* iteration run concurrently, settle in any order, and the checkout POST is
\* issued after all four have settled.
C20_SequentialExceptBrowserFanOut ==
    /\ Cardinality(OpenCalls) <= 1
    /\ pc = "send" => OpenCalls = {}
    /\ Len(calls) = Cardinality({i \in DOMAIN spans : spans[i].name = "HTTP"})
    /\ bpc # "fetching" => Cardinality(inflight) <= 1
    /\ bpc = "fetching" => inflight \cup settled = Auxiliary
    /\ "/api/checkout" \in inflight => Auxiliary \subseteq settled

C20_Witness ==
    /\ bpc = "fetching" /\ settled = {"/api/ads"}
    /\ Cardinality(inflight) = 3
    /\ Done /\ Len(calls) = 16

\* C21: the checkout telemetry singletons are initialized exactly once in a
\* process, and an in-flight placeOrder uses the tracer of the provider its
\* own entry point was given: while an entry point serves, the package
\* tracer is its own and its provider has not been shut down.
C21_SingletonsInitializedOnce ==
    /\ initCount <= 1
    /\ \A e \in EntryPoints :
         goPc[e] = "ready" =>
           /\ checkoutTracer = e
           /\ provider[e] = "live"
           /\ \A i \in 1..Len(placing[e].used) :
                /\ placing[e].used[i].tracer = e
                /\ placing[e].used[i].state = "live"

StepEvents == [i \in DOMAIN StepOrder |-> StepEvent(StepOrder[i])]

\* The events of the root span that span.AddEvent recorded.
AddedEvents == SelectSeq(Root.events, LAMBDA e : e # "exception")

\* The steps whose failure placeOrder does not test.
SoftSteps == {StepOrder[i] : i \in DOMAIN StepOrder} \ HardSteps

\* C23 (as stated): the events recorded on the root span are at every moment a
\* prefix of the nine events prepared .. published_to_kafka; 'charged' only
\* after a successful payment, 'shipped' only after a successful shipment.
C23_RootEventsArePrefix ==
    txn > 0 =>
      /\ IsPrefix(Root.events, StepEvents)
      /\ (\E i \in DOMAIN Root.events : Root.events[i] = "charged")
            => "chargeCard" \notin failed
      /\ (\E i \in DOMAIN Root.events : Root.events[i] = "shipped")
            => "shipOrder" \notin failed

\* C23 (amended): the events span.AddEvent recorded on the root span are at
\* every moment a prefix of the nine events; the only other event is the one
\* exception event of span.RecordError, which is the last event of a
\* transaction aborted at payment or shipping; 'charged' and 'shipped' are
\* recorded only after their call succeeded, the events of the other steps
\* once the step has returned, whether its calls succeeded or not.
C23_RootEventsArePrefixThenException ==
    txn > 0 =>
      LET ev == Root.events
          n  == Len(AddedEvents)
      IN  /\ IsPrefix(AddedEvents, StepEvents)
          /\ Len(ev) \in {n, n + 1}
          /\ (Len(ev) = n + 1) =>
               (/\ ev[Len(ev)] = "exception"
                /\ failed \cap HardSteps # {})
          /\ (Len(ev) = n + 1) <=> (pc = "abort" \/ outcome = "Aborted")
          /\ n >= 6 => "chargeCard" \notin failed
          /\ n >= 7 => "shipOrder" \notin failed
          /\ n = (IF pc \in {"finish", "idle"} /\ Len(ev) = n
                  THEN Len(StepOrder)
                  ELSE step - 1)
          /\ \A i \in 1..n : StepOrder[i] \in SoftSteps \cap failed =>
               ev[i] = StepEvent(StepOrder[i])

\* A transaction aborted at shipping after a failed ads call and a failed
\* cart call: five events, 'charged' and the exception event.
C23_Witness ==
    /\ Done /\ outcome = "Aborted"
    /\ {"prepareOrderItems", "getAds", "shipOrder"} \subseteq failed
    /\ Root.events = << "prepared", "product_details_fetched",
                        "currency_converted", "recommendations_fetched",
                        "ads_fetched", "charged", "exception" >>

\* C24: the orders counter and the latency histogram are updated exactly once
\* when a transaction reaches Complete and at no other step, in particular
\* not when a transaction is aborted at payment or shipping; a transaction
\* that is counted had a successful payment call.  Hence the counter equals
\* the number of completed transactions.
C24_MetricsOncePerCompletedOrder ==
    [][ /\ IF outcome # "Complete" /\ outcome' = "Complete"
           THEN /\ ordersCounter' = ordersCounter + 1
                /\ checkoutLatency' = checkoutLatency + 1
                /\ failed \cap HardSteps = {}
                /\ \E i \in DOMAIN calls : calls[i].step = "chargeCard"
           ELSE UNCHANGED <<ordersCounter, checkoutLatency>>
        /\ ordersCounter' <= txn'
        /\ checkoutLatency' = ordersCounter' ]_vars

\* A completed transaction followed by one aborted at payment: counted once.
C24_Witness ==
    /\ Done /\ txn = 2 /\ outcome = "Aborted"
    /\ "chargeCard" \in failed
    /\ ordersCounter = 1 /\ checkoutLatency = 1

\* C25: a failed cart call never aborts a transaction: prepareOrderItems
\* sends all five cart requests and returns no error, 'Prepare failed' is
\* never logged and no transaction is aborted at PrepareCart; the steps after
\* PrepareCart up to ChargePayment run in every transaction that returns.
C25_CartFailureNeverAborts ==
    /\ "Prepare failed" \notin logs
    /\ ~(pc = "abort" /\ StepName = "prepareOrderItems")
    /\ (txn > 0 /\ StepName = "prepareOrderItems") => ~stepErr
    /\ Returned("prepareOrderItems") =>
          Cardinality(CallsOf("prepareOrderItems")) = itemCount + 2
    /\ Done =>
          \A name \in {"prepareOrderItems", "getProductDetails",
                       "getCurrencyConversion", "getRecommendations",
                       "getAds", "chargeCard"} : Invoked(name)

\* A transaction whose cart calls failed and that reached Complete.
C25_Witness ==
    /\ Done /\ outcome = "Complete"
    /\ "prepareOrderItems" \in failed
    /\ Len(calls) = 16

----------------------------------------------------------------------------
\* The checkout service together with the shipping service: the request of
\* shipOrder is answered by shipHandler unless the transport fails.

\* client.Do returns in the current step function with the answer o
\* (checkout.go:391-402 for shipOrder).
Answered(o) ==
    /\ pc = "wait"
    /\ ~hung
    /\ spans' = [spans EXCEPT ![Len(spans)] = EndSpan(@, now)]
    /\ failed' = IF o = "ok" THEN failed ELSE failed \cup {StepName}
    /\ stepErr' = StepReturnsErr(StepName, o)
    /\ IF ~StepReturnsErr(StepName, o) /\ k < Len(StepCalls(StepName))
       THEN k' = NextRequest(k, o) /\ pc' = "send"
       ELSE k' = k /\ pc' = "ret"
    /\ now' = now + 1
    /\ UNCHANGED <<txn, mode, step, hung, entered, calls, logs, outcome,
                   httpResp, ordersCounter, checkoutLatency>>

\* The answer of a step other than shipOrder.
OtherResponse == pc = "wait" /\ StepName # "shipOrder" /\ Response

\* The shipping service serves the POST /ship of shipOrder; the otelhttp
\* transport of checkout has injected the traceparent.  shipOrder reads the
\* status code of the answer (checkout.go:398-402).
ShippingAnswers ==
    /\ pc = "wait"
    /\ StepName = "shipOrder"
    /\ \E r \in MakeRequestResults :
         LET t == Server("shipping", "POST", "/ship", "valid", r)
         IN  /\ ereq' = [svc |-> "shipping", method |-> "POST", path |-> "/ship",
                         hdr |-> "valid", rnd |-> r]
             /\ trail' = t
             /\ Answered(IF StatusCodes(t) = << "200" >> THEN "ok" ELSE "non200")
    /\ UNCHANGED <<cartVars, propagationVars, browserVars, startupVars, requestVars>>

\* The request of shipOrder fails at transport level: client.Do returns an
\* error (checkout.go:392-395).
ShippingUnreachable ==
    /\ pc = "wait"
    /\ StepName = "shipOrder"
    /\ Answered("err")
    /\ UNCHANGED outsideCheckout

\* Any other client of the shipping service calls /ship, before the orders.
ShipRequestAny ==
    /\ pc = "idle"
    /\ txn = 0
    /\ \E m \in Methods, h \in Headers, r \in MakeRequestResults :
         Serve("shipping", m, "/ship", h, r)

ShipNext ==
    \/ PlaceOrderBatch
    \/ PlaceOrderHttp
    \/ StartStep
    \/ ClientDo
    \/ OtherResponse
    \/ ShippingAnswers
    \/ ShippingUnreachable
    \/ NoResponse
    \/ StepReturn
    \/ PlaceOrderComplete
    \/ PlaceOrderAbort
    \/ ShipRequestAny

ShipSpec == Init /\ [][ShipNext]_vars

\* C26: /ship answers 200 with a tracking id for every request, whatever the
\* quote service does: a transport failure of the quote call gives the local
\* quote, a non-2xx reply of the quote service is taken as a quote;
\* createQuoteFromCount never returns an error, the 500 branch of shipHandler
\* is never taken, and shipOrder fails only when the transport between
\* checkout and shipping fails.
C26_ShipAlwaysAnswers200 ==
    [][ /\ (ereq'.svc = "shipping" /\ ereq'.path = "/ship") =>
            LET t == trail'
                events == {t[i].arg : i \in At(t, "addEvent", "client")}
            IN  /\ StatusCodes(t) = << "200" >>
                /\ \A i \in At(t, "end", "response") : t[i].arg = "tracking"
                /\ Cardinality(At(t, "end", "response")) = 1
                /\ At(t, "recordException", "server") = {}
                /\ ~createQuoteFromCount(ereq'.rnd).err
                /\ ereq'.rnd \in {"error", "timeout"} =>
                      /\ events = {"Quote calculated locally"}
                      /\ At(t, "recordException", "client") # {}
                /\ ereq'.rnd \in {"ok", "non2xx"} =>
                      /\ events = {"Quote received from service"}
                      /\ At(t, "recordException", "client") = {}
        /\ ShippingAnswers => "shipOrder" \notin failed'
        /\ ("shipOrder" \notin failed /\ "shipOrder" \in failed') =>
              ShippingUnreachable ]_vars

\* The quote service answered 503 to the shipping service while it served
\* the /ship request of a transaction that then reached Complete.
C26_Witness ==
    /\ Done /\ outcome = "Complete"
    /\ ereq.svc = "shipping" /\ ereq.path = "/ship" /\ ereq.rnd = "non2xx"
    /\ StatusCodes(trail) = << "200" >>

----------------------------------------------------------------------------
\* The batch runner (RunCheckoutService, checkout.go:51-77) driving
\* placeOrder: iteration i of its loop calls placeOrder and goes on when it
\* has returned.

\* The orders the loop has finished.
LoopIndex == startCount - ordersLeft

\* for i := 0; i < count; i++ { placeOrder(ctx, httpClient) ... }: the call.
LoopCall == pc = "idle" /\ txn = LoopIndex /\ BeginOrder("batch")

\* placeOrder, called with context.Background(), starts its root span.
BatchEnter ==
    /\ placing["batch"].active
    /\ txn = LoopIndex
    /\ PlaceOrderBatch

\* placeOrder has returned; the loop sleeps and goes to its next iteration.
LoopReturn == pc = "idle" /\ txn = LoopIndex + 1 /\ EndOrder("batch")

BatchNext ==
    \/ \E n \in 0..MaxCount : mainCheckout(n)
    \/ InitTelemetry("batch")
    \/ RunCheckoutService
    \/ LoopCall
    \/ BatchEnter
    \/ StartStep
    \/ ClientDo
    \/ Response
    \/ NoResponse
    \/ StepReturn
    \/ PlaceOrderComplete
    \/ PlaceOrderAbort
    \/ LoopReturn
    \/ BatchReturn

BatchSpec == Init /\ [][BatchNext]_vars

\* The loop is about to call placeOrder, placeOrder is about to start its
\* root span, or the loop is about to take placeOrder's return.
LoopGoesOn ==
    \/ ~placing["batch"].active /\ txn = LoopIndex /\ ordersLeft > 0
    \/ placing["batch"].active /\ txn \in {LoopIndex, LoopIndex + 1}

\* C27: the batch runner started with count = n never places more than n
\* orders and has placed exactly n when it returns; an order is started only
\* after the previous placeOrder returned, under a new root span without a
\* parent and in a new trace; after an aborted order the loop goes on with
\* the next one.
C27_BatchPlacesCountOrders ==
    [][ /\ startCount' >= 0 => txn' <= startCount'
        /\ goPc'["batch"] = "done" => (txn' = startCount' /\ pc' = "idle")
        /\ txn' = txn + 1 =>
             /\ pc = "idle"
             /\ Len(spans') = 1
             /\ spans'[1].name = "PlaceOrder"
             /\ spans'[1].parent = 0
             /\ spans'[1].ends = 0
             /\ txn > 0 =>
                  /\ outcome \in {"Complete", "Aborted"}
                  /\ Root.ends = 1
                  /\ spans'[1].trace # Root.trace
        /\ (goPc'["batch"] = "ready" /\ pc' = "idle" /\ txn' < startCount') =>
             /\ ordersLeft' > 0
             /\ LoopGoesOn' ]_vars

\* A run with count 2 whose first order was aborted and whose second one
\* reached Complete, after the runner returned.
C27_Witness ==
    /\ goPc["batch"] = "done" /\ startCount = 2 /\ txn = 2
    /\ outcome = "Complete" /\ ordersCounter = 1

\* C28: every proxied route of the frontend answers 200 whatever the
\* downstream outcome was (non-2xx status, connection error, timeout) and
\* passes on the downstream body or an error JSON; it answers 500 only when
\* the handler throws; an unknown path gets 404.
C28_ProxiedRoutesAnswer200 ==
    (ereq.svc = "frontend" /\ ereq.path # "/health") =>
        LET t == trail
            body == {t[i].arg : i \in At(t, "end", "response")}
            threw == \E i \in DOMAIN t : t[i].op = "throw"
        IN  /\ Len(StatusCodes(t)) = 1
            /\ Cardinality(At(t, "end", "response")) = 1
            /\ (ereq.path \in ProxyRoutes /\ ~threw) =>
                  /\ StatusCodes(t) = << "200" >>
                  /\ ServerStatus(t) = "unset"
                  /\ ereq.rnd \in {"ok", "non2xx"} => body = {"data"}
                  /\ ereq.rnd = "error" => body = {"error"}
                  /\ ereq.rnd = "timeout" => body = {"timeout"}
            /\ StatusCodes(t) = << "500" >> <=> threw
            /\ ereq.path \notin ProxyRoutes \cup {"/", "/index.html"} =>
                  StatusCodes(t) = << "404" >>

\* The checkout service did not answer within 30 s: the gateway answers 200
\* with the timeout JSON.
C28_Witness ==
    /\ ereq.svc = "frontend" /\ ereq.path = "/api/checkout"
    /\ ereq.rnd = "timeout"
    /\ StatusCodes(trail) = << "200" >>
    /\ \E i \in At(trail, "end", "response") : trail[i].arg = "timeout"

\* The cart of u is a hash with one entry per product id, each holding a
\* quantity addItemHandler can draw.
OneEntryPerProduct(h) ==
    \A f \in DOMAIN h :
        /\ f \in CartProducts
        /\ Unmarshal(h[f]).product_id = f
        /\ Unmarshal(h[f]).quantity \in Quantities

\* The cart after the step is the cart before it with product p set anew.
Replaced(h, hNew, p) ==
    /\ DOMAIN hNew = DOMAIN h \cup {p}
    /\ \A f \in DOMAIN h \ {p} : hNew[f] = h[f]

\* An answered GetCart in this step reports the sum of the quantities held.
GetCartReportsSum ==
    \A c \in Connections :
        (Ran(c) /\ creq'[c].op = "get" /\ creq'[c].status = 200) =>
            creq'[c].count = TotalItems(store[creq'[c].user])

\* C29 (as stated): the cart of a user holds one entry per product id, an
\* AddItem of a product replaces its entry and leaves the others, and the
\* cart changes by AddItem and EmptyCart only, so that GetCart reports the
\* sum of the latest quantities of the products added since the last
\* EmptyCart.
C29_CartIsLatestSinceEmptyCart ==
    [][ /\ GetCartReportsSum
        /\ \A u \in CartUsers :
             /\ OneEntryPerProduct(store'[u])
             /\ store'[u] # store[u] =>
                  \/ /\ lastWrite'[u].op = "hset"
                     /\ Replaced(store[u], store'[u], lastWrite'[u].product)
                  \/ /\ lastWrite'[u].op = "del"
                     /\ DOMAIN store'[u] = {} ]_vars

\* C29 (amended): as above, and the cart also becomes empty when its key
\* expires, one hour after the latest AddItem; GetCart reports the sum of the
\* latest quantities of the products added since the last EmptyCart or expiry.
C29_CartIsLatestSinceEmptyCartOrExpiry ==
    [][ /\ GetCartReportsSum
        /\ \A u \in CartUsers :
             /\ OneEntryPerProduct(store'[u])
             /\ store'[u] # store[u] =>
                  \/ /\ lastWrite'[u].op = "hset"
                     /\ Replaced(store[u], store'[u], lastWrite'[u].product)
                  \/ /\ lastWrite'[u].op = "del"
                     /\ DOMAIN store'[u] = {}
                  \/ /\ lastWrite'[u].op = "expired"
                     /\ ttl[u]
                     /\ DOMAIN store'[u] = {} ]_vars

\* Two AddItem requests for u1 have run their HSET, no expiry in between, and
\* the cart holds the one entry of p1 with the later quantity.
C29_Witness ==
    /\ cartOps = 2
    /\ creq[1].op = "add" /\ creq[1].user = "u1" /\ creq[1].status = 200
    /\ creq[2].op = "add" /\ creq[2].user = "u1" /\ creq[2].pc = "expire"
    /\ ttl["u1"]
    /\ DOMAIN store["u1"] = {"p1"}
    /\ Unmarshal(store["u1"]["p1"]).quantity = 3

----------------------------------------------------------------------------
\* The checkout service together with the consumers of the orders topic: the
\* two requests of publishToKafka are answered by the accounting and the
\* fraud-detection service unless the transport fails.

\* The answer of a step other than publishToKafka.
OtherThanPublishResponse == pc = "wait" /\ StepName # "publishToKafka" /\ Response

\* The service the current request of publishToKafka goes to
\* (checkout.go:468, 473).
Consumer == IF k = 1 THEN "accounting" ELSE "fraud-detection"

\* The consumer serves the POST /consume of publishToKafka, which closes the
\* body of the answer and looks at nothing else (checkout.go:468-476).
ConsumerAnswers ==
    /\ pc = "wait"
    /\ StepName = "publishToKafka"
    /\ \E r \in RequestResults(Consumer, "POST", "/consume") :
         LET t == Server(Consumer, "POST", "/consume", "valid", r)
         IN  /\ ereq' = [svc |-> Consumer, method |-> "POST", path |-> "/consume",
                         hdr |-> "valid", rnd |-> r]
             /\ trail' = t
             /\ Answered(IF StatusCodes(t) = << "200" >> THEN "ok" ELSE "non200")
    /\ UNCHANGED <<cartVars, propagationVars, browserVars, startupVars, requestVars>>

\* A request of publishToKafka fails at transport level.
ConsumerUnreachable ==
    /\ pc = "wait"
    /\ StepName = "publishToKafka"
    /\ Answered("err")
    /\ UNCHANGED outsideCheckout

\* Any other client calls /consume of a consumer, before the orders.
ConsumeRequestAny ==
    /\ pc = "idle"
    /\ txn = 0
    /\ \E svc \in {"accounting", "fraud-detection"}, m \in Methods, h \in Headers :
         \E r \in RequestResults(svc, m, "/consume") :
            Serve(svc, m, "/consume", h, r)

PublishNext ==
    \/ PlaceOrderBatch
    \/ PlaceOrderHttp
    \/ StartStep
    \/ ClientDo
    \/ OtherThanPublishResponse
    \/ ConsumerAnswers
    \/ ConsumerUnreachable
    \/ NoResponse
    \/ StepReturn
    \/ PlaceOrderComplete
    \/ PlaceOrderAbort
    \/ ConsumeRequestAny

PublishSpec == Init /\ [][PublishNext]_vars

\* C30: /consume of fraud-detection answers 200 for every request, flagged
\* or not, and neither it nor detectFraud sets a span status; the same
\* holds for accounting.  Whatever the consumers answer, and also when they
\* cannot be reached, a transaction that has called publishToKafka reaches
\* Complete: the step never returns an error, the root span gets no
\* exception event and 'published_to_kafka' is recorded.
C30_FraudOutcomeNeverChangesCheckout ==
    [][ /\ (ereq'.svc \in {"accounting", "fraud-detection"}
              /\ ereq'.path = "/consume") =>
            LET t == trail'
            IN  /\ StatusCodes(t) = << "200" >>
                /\ \A i \in DOMAIN t : t[i].op \notin {"setStatus", "recordException"}
                /\ Cardinality(At(t, "end", "response")) = 1
                /\ ereq'.svc = "fraud-detection" =>
                      /\ Cardinality(At(t, "counter", "meter"))
                            = (IF ereq'.rnd = "fraud" THEN 2 ELSE 1)
                      /\ {t[i].arg : i \in At(t, "addEvent", "detectFraud")}
                            = (IF ereq'.rnd = "fraud" THEN {"fraud_detected"}
                               ELSE {"order_cleared"})
        /\ ConsumerAnswers => failed' = failed
        /\ (txn' > 0 /\ StepOrder[step'] = "publishToKafka") =>
              /\ ~stepErr'
              /\ pc' # "abort"
              /\ Root'.status = Root.status
        /\ (Invoked("publishToKafka") /\ pc # "idle" /\ pc' = "idle") =>
              /\ outcome' = "Complete"
              /\ Root'.events[Len(Root'.events)] = "published_to_kafka"
              /\ mode = "http" => httpResp'.status = 200 ]_vars

\* The fraud-detection service flagged the order of a transaction that
\* reached Complete.
C30_Witness ==
    /\ Done /\ outcome = "Complete"
    /\ ereq.svc = "fraud-detection" /\ ereq.rnd = "fraud"
    /\ \E i \in At(trail, "addEvent", "detectFraud") : trail[i].arg = "fraud_detected"
    /\ StatusCodes(trail) = << "200" >>

====
